---- MODULE Spec2Model ----
(***************************************************************************)
(* EaseABill backend: the budget-evaluation engine (financial_helper.py),  *)
(* the chart aggregations (stats_helper.py), the persistence helpers they  *)
(* read (database.py) and the HTTP handlers that drive them (main.py).     *)
(*                                                                         *)
(* Conventions of the model                                                *)
(*  - An instant is an integer number of hours since Monday 2025-12-01     *)
(*    00:00 UTC (hour 0).  All datetimes are timezone-aware UTC, so        *)
(*    ensure_tz / _ensure_tz leave them as they are.                       *)
(*  - Money is an integer number of currency units.  A Python float that   *)
(*    results from a division is the exact rational <<n, d>> with d > 0,   *)
(*    reduced to lowest terms; comparisons are exact.                      *)
(*  - A dict is a record (a function on its keys); dict.get is Get.        *)
(***************************************************************************)
EXTENDS Integers, Sequences, FiniteSets, TLC

VARIABLES users, expenses, budgets, statuses, clock, out

vars == <<users, expenses, budgets, statuses, clock, out>>

----------------------------------------------------------------------------
(* Bounds of the model *)

MaxExpenses == 2
MaxBudgets == 2
MaxEvalExpenses == 2
MaxPieCategories == 7
MaxSeriesExpenses == 2
MaxBuckets == 3
MaxCohortExpenses == 2
MaxRaceExpenses == 3
MaxProfileUpdates == 2

----------------------------------------------------------------------------
(* Input sets *)

Users == {"u1", "u2"}

\* Monday 00:00, Wednesday 12:00 of the same week, the next Monday 00:00.
Monday0 == 0 * 24
WednesdayNoon == 2 * 24 + 12
Monday1 == 7 * 24
Monday2 == 14 * 24

None == <<>>
Some(x) == <<x>>

\* The value of `out` while no call is outstanding.
NoCall == [op |-> "none"]

\* A user row as add_user writes it: no location, income or goal yet.
NewUser(id) ==
    [id |-> id, location |-> None, monthly_income |-> None, budget_goal |-> None]

\* The users table after u1 and u2 have registered.
RegisteredUsers == <<NewUser("u1"), NewUser("u2")>>

----------------------------------------------------------------------------
(* Exact arithmetic standing for Python floats *)

Abs(x) == IF x < 0 THEN -x ELSE x

RECURSIVE GCD(_, _)
GCD(a, b) == IF b = 0 THEN a ELSE GCD(b, a % b)

\* The rational n/d (d # 0) in lowest terms with a positive denominator.
Rat(n, d) ==
    LET s == IF d < 0 THEN -1 ELSE 1
        g == GCD(Abs(n), Abs(d))
    IN  <<(s * n) \div g, (s * d) \div g>>

RInt(x) == <<x, 1>>
RMul(a, b) == Rat(a[1] * b[1], a[2] * b[2])
RSub(a, b) == Rat(a[1] * b[2] - b[1] * a[2], a[2] * b[2])
RLe(a, b) == a[1] * b[2] <= b[1] * a[2]
RGe(a, b) == RLe(b, a)
RLt(a, b) == ~RLe(b, a)

\* f"{x:.0f}": the nearest integer, ties to the even one.
Round0(a) ==
    LET fl == a[1] \div a[2]
        twice == 2 * (a[1] - fl * a[2])
    IN  IF twice < a[2] THEN fl
        ELSE IF twice > a[2] THEN fl + 1
        ELSE IF fl % 2 = 0 THEN fl ELSE fl + 1

\* f"{x:.2f}" of an amount: the number of hundredths it prints.
Fmt2(x) == x * 100

\* dict.get(key, default)
Get(d, k, default) == IF k \in DOMAIN d THEN d[k] ELSE default

EmptyDict == [k \in {} |-> 0]

----------------------------------------------------------------------------
(* Calendar: what datetime.replace and datetime.isoformat read and write *)

IsLeap(y) == (y % 4 = 0 /\ y % 100 # 0) \/ y % 400 = 0

DaysInMonth(y, m) ==
    IF m \in {1, 3, 5, 7, 8, 10, 12} THEN 31
    ELSE IF m \in {4, 6, 9, 11} THEN 30
    ELSE IF IsLeap(y) THEN 29 ELSE 28

NextMonth(ym) == IF ym[2] = 12 THEN <<ym[1] + 1, 1>> ELSE <<ym[1], ym[2] + 1>>

\* Day 0 of the model is 2025-12-01; the calendar reaches back to the first
\* of CalendarBase.
EpochMonth == <<2025, 12>>
CalendarBase == <<2022, 1>>

\* The civil date of day number d counted from the first of month ym.
RECURSIVE CivilFrom(_, _)
CivilFrom(ym, d) ==
    IF d < DaysInMonth(ym[1], ym[2])
    THEN [year |-> ym[1], month |-> ym[2], day |-> d + 1]
    ELSE CivilFrom(NextMonth(ym), d - DaysInMonth(ym[1], ym[2]))

\* Days from day 0 to the first of month `target`, walking from month ym.
RECURSIVE DaysUntilMonth(_, _)
DaysUntilMonth(ym, target) ==
    IF ym = target THEN 0
    ELSE DaysInMonth(ym[1], ym[2]) + DaysUntilMonth(NextMonth(ym), target)

\* The day number of day 0 counted from the first of CalendarBase.
EpochDay == DaysUntilMonth(CalendarBase, EpochMonth)

\* The calendar of the model: the years 2022 to 2027, tabulated once.
CalendarYears == 2022..2027
CalendarDays == DaysUntilMonth(CalendarBase, <<2028, 1>>)
CivilOfDay == [d \in 0..(CalendarDays - 1) |-> CivilFrom(CalendarBase, d)]
FirstDayOfMonth == [ym \in CalendarYears \X (1..12) |-> DaysUntilMonth(CalendarBase, ym)]

\* The fields of the datetime at instant t.
Civil(t) == CivilOfDay[t \div 24 + EpochDay] @@ [hour |-> t % 24]

\* The instant of year-month-day 00:00.
InstantOf(y, m, d) == (FirstDayOfMonth[<<y, m>>] - EpochDay + (d - 1)) * 24

\* datetime.isoformat(): the printed fields of the instant.
IsoFormat(t) == Civil(t)

----------------------------------------------------------------------------
(* database.py: query helpers *)

\* The rows of table E whose positions are in S, in table order.
RowsAt(E, S) ==
    LET F[k \in 0..Len(E)] ==
            IF k = 0 THEN <<>>
            ELSE IF k \in S THEN Append(F[k - 1], E[k]) ELSE F[k - 1]
    IN  F[Len(E)]

RECURSIVE SeqSum(_)
SeqSum(s) == IF s = <<>> THEN 0 ELSE Head(s) + SeqSum(Tail(s))

AmountsOf(rows) == [i \in DOMAIN rows |-> rows[i].amount]

\* Mutant of ExpenseMatches: the window's end bound taken inclusive.
ExpenseMatches_EndInclusive(e, user_id, start, end, category) ==
    /\ e.user_id = user_id
    /\ e.date >= start
    /\ e.date <= end
    /\ (category # None => e.category = category[1])

\* The WHERE clause of sum_expenses.
ExpenseMatches(e, user_id, start, end, category) ==
    /\ e.user_id = user_id
    /\ e.date >= start
    /\ e.date < end
    /\ (category # None => e.category = category[1])

\* sum_expenses over the expense table E: COALESCE(SUM(amount), 0.0).
SumExpenses(E, user_id, start, end, category) ==
    SeqSum(AmountsOf(SelectSeq(E, LAMBDA e : ExpenseMatches(e, user_id, start, end, category))))

\* Mutant of BudgetMatches: a budget still counts as active at its end_date.
BudgetMatches_EndInclusive(b, user_id, active_only, now) ==
    /\ b.user_id = user_id
    /\ (active_only => (b.start_date <= now /\ b.end_date >= now))

\* The WHERE clause of list_budgets.
BudgetMatches(b, user_id, active_only, now) ==
    /\ b.user_id = user_id
    /\ (active_only => (b.start_date <= now /\ b.end_date > now))

\* list_budgets over the budget table B: every row order the query may
\* return (ORDER BY start_date DESC leaves rows of equal start_date in any
\* order).
ListBudgets(B, user_id, active_only, now) ==
    LET I == {i \in DOMAIN B : BudgetMatches(B[i], user_id, active_only, now)}
        n == Cardinality(I)
        Orders == {s \in [1..n -> I] :
                      /\ \A j, k \in 1..n : j # k => s[j] # s[k]
                      /\ \A j, k \in 1..n :
                            j < k => B[s[j]].start_date >= B[s[k]].start_date}
    IN  {[j \in 1..n |-> B[s[j]]] : s \in Orders}

----------------------------------------------------------------------------
(* financial_helper.py: time helpers and goal evaluation *)

Min(a, b) == IF a <= b THEN a ELSE b

\* Mutant of ProgressRatio: the elapsed share is not clamped below.
ProgressRatio_Unclamped(start, end, now) ==
    LET total == end - start
        elapsed == Min(now, end) - start
    IN  IF total <= 0 THEN RInt(1) ELSE Rat(elapsed, total)

\* Mutant of ProgressRatio: a window of no length counts as not started.
ProgressRatio_EmptyNotStarted(start, end, now) ==
    LET total == end - start
        elapsed == Min(now, end) - start
    IN  IF total <= 0 THEN RInt(0)
        ELSE IF elapsed <= 0 THEN RInt(0)
        ELSE IF elapsed >= total THEN RInt(1)
        ELSE Rat(elapsed, total)

\* progress_ratio: elapsed share of [start, end), clamped to [0, 1].
ProgressRatio(start, end, now) ==
    LET total == end - start
        elapsed == Min(now, end) - start
    IN  IF total <= 0 THEN RInt(1)
        ELSE IF elapsed <= 0 THEN RInt(0)
        ELSE IF elapsed >= total THEN RInt(1)
        ELSE Rat(elapsed, total)

\* Mutant of PercentUsed: the share of the limit remaining, not the share used.
PercentUsed_Remaining(spent, limit_amt) ==
    IF limit_amt > 0 THEN Rat((limit_amt - spent) * 100, limit_amt) ELSE RInt(0)

\* percent_used: spent / limit * 100, or 0 when the limit is not positive.
PercentUsed(spent, limit_amt) ==
    IF limit_amt > 0 THEN Rat(spent * 100, limit_amt) ELSE RInt(0)

\* ahead_percent: percent used minus the percent of the window elapsed.
AheadPercent(percent_used, expected_percent) == RSub(percent_used, expected_percent)

\* Mutant of Classify: the overspent test applied to positive limits only.
Classify_PositiveLimitOnly(spent, limit_amt, percent_used, ahead_percent, notify_percent_used, notify_ahead_of_pace_percent) ==
    IF limit_amt > 0 /\ spent > limit_amt
    THEN [status |-> "OVERSPENT", should_notify |-> TRUE]
    ELSE IF \/ RGe(percent_used, RInt(notify_percent_used))
            \/ RGe(ahead_percent, RInt(notify_ahead_of_pace_percent))
         THEN [status |-> "WARNING", should_notify |-> TRUE]
         ELSE [status |-> "ON_TRACK", should_notify |-> FALSE]

\* Mutant of Classify: a warning needs both thresholds to be reached.
Classify_BothThresholds(spent, limit_amt, percent_used, ahead_percent, notify_percent_used, notify_ahead_of_pace_percent) ==
    IF spent > limit_amt
    THEN [status |-> "OVERSPENT", should_notify |-> TRUE]
    ELSE IF /\ RGe(percent_used, RInt(notify_percent_used))
            /\ RGe(ahead_percent, RInt(notify_ahead_of_pace_percent))
         THEN [status |-> "WARNING", should_notify |-> TRUE]
         ELSE [status |-> "ON_TRACK", should_notify |-> FALSE]

\* The status branches of evaluate_budget_goal.
Classify(spent, limit_amt, percent_used, ahead_percent, notify_percent_used, notify_ahead_of_pace_percent) ==
    IF spent > limit_amt
    THEN [status |-> "OVERSPENT", should_notify |-> TRUE]
    ELSE LET is_warning ==
                 \/ RGe(percent_used, RInt(notify_percent_used))
                 \/ RGe(ahead_percent, RInt(notify_ahead_of_pace_percent))
         IN  IF is_warning
             THEN [status |-> "WARNING", should_notify |-> TRUE]
             ELSE [status |-> "ON_TRACK", should_notify |-> FALSE]

\* The templated message of each status.
GoalMessage(status, remaining, percent_used, ahead_percent) ==
    IF status = "OVERSPENT"
    THEN [text |-> "Budget exceeded. Remaining", remaining |-> Fmt2(remaining)]
    ELSE IF status = "WARNING"
    THEN [text |-> "Budget: % used (% vs pace). Remaining",
          used |-> Round0(percent_used), pace |-> Round0(ahead_percent),
          remaining |-> Fmt2(remaining)]
    ELSE [text |-> "Budget: on track (% used). Remaining",
          used |-> Round0(percent_used), remaining |-> Fmt2(remaining)]

\* The responses of the text-rewriting service: the stripped content of its
\* first choice, or a failure of the call (network error, malformed body).
RoastFailure == "<raises>"

\* A JSON null, and a content of white space only.
JsonNull == "<null>"
Blank == "  "

\* str.strip()
Strip(text) == IF text = Blank THEN "" ELSE text

\* The bodies the service answers with (response.json()): an error body
\* without choices, an empty list of choices, a first choice without a
\* message, a message without content, with null, empty, blank or written
\* content.
RoastBodies ==
    {EmptyDict,
     [choices |-> <<>>],
     [choices |-> <<EmptyDict>>],
     [choices |-> <<[message |-> EmptyDict]>>],
     [choices |-> <<[message |-> [content |-> JsonNull]]>>],
     [choices |-> <<[message |-> [content |-> ""]]>>],
     [choices |-> <<[message |-> [content |-> Blank]]>>],
     [choices |-> <<[message |-> [content |-> "Nice budget. Shame about the spending."]]>>]}

\* .get("choices", [{}])[0].get("message", {}).get("content", "").strip():
\* indexing an empty list and stripping a null raise.
RoastContent(body) ==
    LET choices == Get(body, "choices", <<EmptyDict>>)
    IN  IF Len(choices) = 0 THEN RoastFailure
        ELSE LET content == Get(Get(choices[1], "message", EmptyDict), "content", "")
             IN  IF content = JsonNull THEN RoastFailure ELSE Strip(content)

RoastResponses == {"", "Nice budget. Shame about the spending.", RoastFailure}

\* evaluate_budget_goal after its query: everything it derives from the
\* `spent` that sum_expenses returned, given the content the rewriting call
\* returned.
EvaluateFromSpent(spent, budget, now, notify_percent_used, notify_ahead_of_pace_percent, content) ==
    LET start == budget.start_date
        end == budget.end_date
        limit_amt == budget.limit
        remaining == limit_amt - spent
        percent_used == PercentUsed(spent, limit_amt)
        prog == ProgressRatio(start, end, now)
        expected_spent == RMul(RInt(limit_amt), prog)
        expected_percent == RMul(prog, RInt(100))
        ahead_by == RSub(RInt(spent), expected_spent)
        ahead_percent == AheadPercent(percent_used, expected_percent)
        c == Classify(spent, limit_amt, percent_used, ahead_percent,
                      notify_percent_used, notify_ahead_of_pace_percent)
        msg == GoalMessage(c.status, remaining, percent_used, ahead_percent)
        payload == [goalType |-> "BUDGET",
                    budgetId |-> budget.id,
                    period |-> budget.period,
                    window |-> [start |-> IsoFormat(start), end |-> IsoFormat(end)],
                    spent |-> spent,
                    limit |-> limit_amt,
                    remaining |-> remaining,
                    percentUsed |-> percent_used,
                    expectedSpentByNow |-> expected_spent,
                    expectedPercentByNow |-> expected_percent,
                    aheadBy |-> ahead_by,
                    aheadPercent |-> ahead_percent]
    IN  [goalType |-> "BUDGET",
         status |-> c.status,
         shouldNotify |-> c.should_notify,
         message |-> IF content = "" THEN msg ELSE [text |-> content],
         data |-> payload]

\* evaluate_budget_goal over the expense table E: one query of the window
\* sum, then the derivation.
EvaluateBudgetGoal(E, user_id, budget, now, notify_percent_used, notify_ahead_of_pace_percent, content) ==
    EvaluateFromSpent(SumExpenses(E, user_id, budget.start_date, budget.end_date, None),
                      budget, now, notify_percent_used, notify_ahead_of_pace_percent, content)

----------------------------------------------------------------------------
(* Datetimes that carry a UTC offset, and the period windows *)

\* A datetime: its wall-clock reading, in hours since 2025-12-01 00:00, and
\* its UTC offset in hours (None for a naive datetime).
DateTime(wall, tz) == [wall |-> wall, tz |-> tz]

\* What utc_now() returns at the instant t.
UtcDateTime(t) == DateTime(t, Some(0))

\* ensure_tz: a naive datetime is stamped UTC, an aware one is kept.
EnsureTz(dt) == IF dt.tz = None THEN [dt EXCEPT !.tz = Some(0)] ELSE dt

\* The instant an aware datetime denotes (what comparisons and
\* subtractions of aware datetimes go by).
UtcInstant(dt) == dt.wall - dt.tz[1]

\* datetime.weekday(): Monday is 0; day 0 of the model is a Monday.
Weekday(dt) == (dt.wall \div 24) % 7

\* datetime.isoformat() of an aware datetime: its fields and its offset.
IsoFormatDt(dt) == Civil(dt.wall) @@ [offset |-> dt.tz[1]]

Periods == {"weekly", "monthly", "yearly"}

\* Mutant of WindowForPeriod: December is followed by January of the same year.
WindowForPeriod_NoYearRoll(period, now) ==
    LET n == EnsureTz(now)
        c == Civil(n.wall)
    IN  IF period = "weekly"
        THEN LET start == ((n.wall \div 24) - Weekday(n)) * 24
             IN  [raised |-> FALSE, start |-> DateTime(start, n.tz),
                  end |-> DateTime(start + 7 * 24, n.tz)]
        ELSE IF period = "monthly"
        THEN LET start == InstantOf(c.year, c.month, 1)
                 end == IF c.month = 12 THEN InstantOf(c.year, 1, 1)
                        ELSE InstantOf(c.year, c.month + 1, 1)
             IN  [raised |-> FALSE, start |-> DateTime(start, n.tz),
                  end |-> DateTime(end, n.tz)]
        ELSE IF period = "yearly"
        THEN [raised |-> FALSE, start |-> DateTime(InstantOf(c.year, 1, 1), n.tz),
              end |-> DateTime(InstantOf(c.year + 1, 1, 1), n.tz)]
        ELSE [raised |-> TRUE, error |-> "ValueError"]

\* Mutant of WindowForPeriod: an unknown period is taken to be monthly.
WindowForPeriod_DefaultMonthly(period, now) ==
    LET n == EnsureTz(now)
        c == Civil(n.wall)
    IN  IF period = "weekly"
        THEN LET start == ((n.wall \div 24) - Weekday(n)) * 24
             IN  [raised |-> FALSE, start |-> DateTime(start, n.tz),
                  end |-> DateTime(start + 7 * 24, n.tz)]
        ELSE IF period = "yearly"
        THEN [raised |-> FALSE, start |-> DateTime(InstantOf(c.year, 1, 1), n.tz),
              end |-> DateTime(InstantOf(c.year + 1, 1, 1), n.tz)]
        ELSE LET start == InstantOf(c.year, c.month, 1)
                 end == IF c.month = 12 THEN InstantOf(c.year + 1, 1, 1)
                        ELSE InstantOf(c.year, c.month + 1, 1)
             IN  [raised |-> FALSE, start |-> DateTime(start, n.tz),
                  end |-> DateTime(end, n.tz)]

\* window_for_period: the [start, end) window of `now`, both bounds carrying
\* the offset of `now`, or a ValueError for an unknown period.
WindowForPeriod(period, now) ==
    LET n == EnsureTz(now)
        c == Civil(n.wall)
    IN  IF period = "weekly"
        THEN LET start == ((n.wall \div 24) - Weekday(n)) * 24
             IN  [raised |-> FALSE, start |-> DateTime(start, n.tz),
                  end |-> DateTime(start + 7 * 24, n.tz)]
        ELSE IF period = "monthly"
        THEN LET start == InstantOf(c.year, c.month, 1)
                 end == IF c.month = 12 THEN InstantOf(c.year + 1, 1, 1)
                        ELSE InstantOf(c.year, c.month + 1, 1)
             IN  [raised |-> FALSE, start |-> DateTime(start, n.tz),
                  end |-> DateTime(end, n.tz)]
        ELSE IF period = "yearly"
        THEN [raised |-> FALSE, start |-> DateTime(InstantOf(c.year, 1, 1), n.tz),
              end |-> DateTime(InstantOf(c.year + 1, 1, 1), n.tz)]
        ELSE [raised |-> TRUE, error |-> "ValueError"]

\* _week_window of stats_helper.py.
WeekWindow(now) ==
    LET n == EnsureTz(now)
        start == ((n.wall \div 24) - Weekday(n)) * 24
    IN  <<DateTime(start, n.tz), DateTime(start + 7 * 24, n.tz)>>

\* Mutant of Reverse: the list is left newest first.
Reverse_Keep(s) == s

\* list.reverse()
RECURSIVE Reverse(_)
Reverse(s) == IF s = <<>> THEN <<>> ELSE Append(Reverse(Tail(s)), Head(s))

\* Mutant of PreviousWindow: the monthly anchor is 31 days before the start.
PreviousWindow_ThirtyOneDays(period, cur_start, cur_end) ==
    IF period = "weekly"
    THEN <<DateTime(cur_start.wall - 7 * 24, cur_start.tz), cur_start>>
    ELSE IF period = "monthly"
    THEN LET anchor == DateTime(((cur_start.wall - 31 * 24) \div 24) * 24 + 12, cur_start.tz)
             w == WindowForPeriod("monthly", anchor)
         IN  <<w.start, w.end>>
    ELSE LET c == Civil(cur_start.wall)
             anchor == DateTime(InstantOf(c.year - 1, 6, 1) + c.hour, cur_start.tz)
             w == WindowForPeriod("yearly", anchor)
         IN  <<w.start, w.end>>

\* The window one period before [cur_start, cur_end), as trend_series steps back.
PreviousWindow(period, cur_start, cur_end) ==
    IF period = "weekly"
    THEN <<DateTime(cur_start.wall - 7 * 24, cur_start.tz), cur_start>>
    ELSE IF period = "monthly"
    THEN LET anchor == DateTime(((cur_start.wall - 24) \div 24) * 24 + 12, cur_start.tz)
             w == WindowForPeriod("monthly", anchor)
         IN  <<w.start, w.end>>
    ELSE LET c == Civil(cur_start.wall)
             anchor == DateTime(InstantOf(c.year - 1, 6, 1) + c.hour, cur_start.tz)
             w == WindowForPeriod("yearly", anchor)
         IN  <<w.start, w.end>>

\* The loop of trend_series: k entries, the newest first.
RECURSIVE TrendEntries(_, _, _, _, _, _)
TrendEntries(E, user_id, period, k, cur_start, cur_end) ==
    IF k <= 0 THEN <<>>
    ELSE LET entry == [start |-> IsoFormatDt(cur_start), end |-> IsoFormatDt(cur_end),
                       total |-> SumExpenses(E, user_id, UtcInstant(cur_start), UtcInstant(cur_end), None)]
             prev == PreviousWindow(period, cur_start, cur_end)
         IN  <<entry>> \o TrendEntries(E, user_id, period, k - 1, prev[1], prev[2])

\* trend_series: the last `buckets` period totals, oldest first.
TrendSeries(E, user_id, period, buckets, now) ==
    LET w == WindowForPeriod(period, EnsureTz(now))
    IN  IF w.raised THEN w
        ELSE [raised |-> FALSE,
              series |-> Reverse(TrendEntries(E, user_id, period, buckets, w.start, w.end))]

\* The loop of weekly_spend_series: k points, the newest first.
RECURSIVE WeeklyPoints(_, _, _, _, _, _)
WeeklyPoints(E, user_id, category, k, cur_start, cur_end) ==
    IF k <= 0 THEN <<>>
    ELSE LET point == [x |-> IsoFormatDt(cur_start),
                       y |-> SumExpenses(E, user_id, UtcInstant(cur_start), UtcInstant(cur_end), category)]
         IN  <<point>> \o WeeklyPoints(E, user_id, category, k - 1, DateTime(cur_start.wall - 7 * 24, cur_start.tz), cur_start)

\* weekly_spend_series: the last `weeks` weekly totals, oldest first.
WeeklySpendSeries(E, user_id, weeks, category, now) ==
    LET w == WeekWindow(EnsureTz(now))
    IN  [category |-> category,
         points |-> Reverse(WeeklyPoints(E, user_id, category, weeks, w[1], w[2]))]

\* current_spend_summary: the spend of the current period window and how
\* much of the window has elapsed.
CurrentSpendSummary(E, user_id, period, now) ==
    LET n == EnsureTz(now)
        w == WindowForPeriod(period, n)
    IN  IF w.raised THEN w
        ELSE LET prog == ProgressRatio(UtcInstant(w.start), UtcInstant(w.end), UtcInstant(n))
             IN  [raised |-> FALSE,
                  summary |-> [period |-> period,
                               window |-> [start |-> IsoFormatDt(w.start), end |-> IsoFormatDt(w.end)],
                               spent |-> SumExpenses(E, user_id, UtcInstant(w.start), UtcInstant(w.end), None),
                               progressRatio |-> prog,
                               progressPercent |-> RMul(prog, RInt(100))]]

----------------------------------------------------------------------------
(* financial_helper.py: income cohorts and the peer comparison *)

\* Incomes are wide numbers: <<h, l>> stands for h * 10^9 + l with
\* 0 <= l < 10^9, so that the end of the last bucket, 10^18, is a value.
Wide(n) == <<0, n>>
TenToThe18 == <<1000000000, 0>>
WLt(a, b) == a[1] < b[1] \/ (a[1] = b[1] /\ a[2] < b[2])
WLe(a, b) == a = b \/ WLt(a, b)

\* float("inf")
Infinity == "inf"

INCOME_BUCKETS ==
    <<<<Wide(0), Wide(2500)>>, <<Wide(2500), Wide(4000)>>, <<Wide(4000), Wide(6000)>>,
      <<Wide(6000), Wide(9000)>>, <<Wide(9000), Wide(13000)>>, <<Wide(13000), TenToThe18>>>>

\* The label f"{lo}+" or f"{lo}-{hi}", as the pieces it is printed from.
BucketLabel(lo, hi) == IF WLe(TenToThe18, hi) THEN <<lo, "+">> ELSE <<lo, "-", hi>>

\* income_bucket_label: the label of the first bucket with lo <= x < hi, or
\* None when the income is None or no bucket holds it.
IncomeBucketLabel(monthly_income) ==
    IF monthly_income = None THEN None
    ELSE LET x == monthly_income[1]
             hits == {k \in DOMAIN INCOME_BUCKETS :
                         WLe(INCOME_BUCKETS[k][1], x) /\ WLt(x, INCOME_BUCKETS[k][2])}
         IN  IF hits = {} THEN None
             ELSE LET k == CHOOSE j \in hits : \A i \in hits : j <= i
                  IN  Some(BucketLabel(INCOME_BUCKETS[k][1], INCOME_BUCKETS[k][2]))

\* income_bucket_range: the label parsed back into <<lo, hi>>.
IncomeBucketRange(label) ==
    IF label[Len(label)] = "+" THEN <<label[1], Infinity>> ELSE <<label[1], label[3]>>

\* get_user_by_id: the row, or None.
GetUserById(U, user_id) ==
    LET hits == {k \in DOMAIN U : U[k].id = user_id}
    IN  IF hits = {} THEN None ELSE Some(U[CHOOSE k \in hits : TRUE])

\* Whether user row u passes the WHERE clause of the peer query.
PeerMatches(u, location, lo, hi) ==
    /\ u.location = Some(location)
    /\ u.monthly_income # None
    /\ WLe(lo, u.monthly_income[1])
    /\ hi # Infinity => WLt(u.monthly_income[1], hi)

\* The expense rows the peer query aggregates: joined to a matching user,
\* dated in [start, end), of the category when one is given.
PeerRows(U, E, location, lo, hi, start, end, category) ==
    {i \in DOMAIN E :
        /\ \E k \in DOMAIN U : U[k].id = E[i].user_id /\ PeerMatches(U[k], location, lo, hi)
        /\ ExpenseMatches(E[i], E[i].user_id, start, end, category)}

\* Mutant of CohortRegionPeerStats: every matching user counts as a peer,
\* with a total of 0 when there is no expense of theirs in the window.
CohortRegionPeerStats_AllUsers(U, E, location, bucket_label, start, end, category) ==
    LET r == IncomeBucketRange(bucket_label)
        ids == {U[k].id : k \in {j \in DOMAIN U : PeerMatches(U[j], location, r[1], r[2])}}
        total == SeqSum(AmountsOf(RowsAt(E, PeerRows(U, E, location, r[1], r[2], start, end, category))))
    IN  IF ids = {} THEN <<RInt(0), 0>> ELSE <<Rat(total, Cardinality(ids)), Cardinality(ids)>>

\* cohort_region_peer_stats: <<average of the per-user totals, number of
\* users with a total>>; the totals add up to the sum over all rows.
CohortRegionPeerStats(U, E, location, bucket_label, start, end, category) ==
    LET r == IncomeBucketRange(bucket_label)
        rows == PeerRows(U, E, location, r[1], r[2], start, end, category)
        ids == {E[i].user_id : i \in rows}
        total == SeqSum(AmountsOf(RowsAt(E, rows)))
    IN  IF ids = {} THEN <<RInt(0), 0>> ELSE <<Rat(total, Cardinality(ids)), Cardinality(ids)>>

RDiv(a, b) == Rat(a[1] * b[2], a[2] * b[1])
RAbs(a) == <<Abs(a[1]), a[2]>>

\* Mutant of CohortMessage: the two thresholds are exclusive.
CohortMessage_Exclusive(peer_users, min_peers, peer_avg, delta_pct, user_spent) ==
    IF peer_users < min_peers THEN [text |-> "Not enough peer data to compare"]
    ELSE IF RLe(peer_avg, RInt(0)) THEN [text |-> "Peer average is not available"]
    ELSE IF RLt(RInt(15), delta_pct)
    THEN [text |-> "you spent ~% more", pct |-> Round0(delta_pct), spent |-> user_spent, avg |-> Round0(peer_avg)]
    ELSE IF RLt(delta_pct, RInt(0 - 15))
    THEN [text |-> "you spent ~% less", pct |-> Round0(RAbs(delta_pct)), spent |-> user_spent, avg |-> Round0(peer_avg)]
    ELSE [text |-> "your spending is close to average", spent |-> user_spent, avg |-> Round0(peer_avg)]

\* Mutant of CohortMessage: a peer average of 0 or less is compared against.
CohortMessage_NoAverageGuard(peer_users, min_peers, peer_avg, delta_pct, user_spent) ==
    IF peer_users < min_peers THEN [text |-> "Not enough peer data to compare"]
    ELSE IF RGe(delta_pct, RInt(15))
    THEN [text |-> "you spent ~% more", pct |-> Round0(delta_pct), spent |-> user_spent, avg |-> Round0(peer_avg)]
    ELSE IF RLe(delta_pct, RInt(0 - 15))
    THEN [text |-> "you spent ~% less", pct |-> Round0(RAbs(delta_pct)), spent |-> user_spent, avg |-> Round0(peer_avg)]
    ELSE [text |-> "your spending is close to average", spent |-> user_spent, avg |-> Round0(peer_avg)]

\* The message branches of compare_user_to_cohort_in_region.
CohortMessage(peer_users, min_peers, peer_avg, delta_pct, user_spent) ==
    IF peer_users < min_peers THEN [text |-> "Not enough peer data to compare"]
    ELSE IF RLe(peer_avg, RInt(0)) THEN [text |-> "Peer average is not available"]
    ELSE IF RGe(delta_pct, RInt(15))
    THEN [text |-> "you spent ~% more", pct |-> Round0(delta_pct), spent |-> user_spent, avg |-> Round0(peer_avg)]
    ELSE IF RLe(delta_pct, RInt(0 - 15))
    THEN [text |-> "you spent ~% less", pct |-> Round0(RAbs(delta_pct)), spent |-> user_spent, avg |-> Round0(peer_avg)]
    ELSE [text |-> "your spending is close to average", spent |-> user_spent, avg |-> Round0(peer_avg)]

\* What compare_user_to_cohort_in_region returns before it has queried
\* anything but the user row.
CohortEarly(message, data) ==
    [raised |-> FALSE, queries |-> <<"get_user_by_id">>, rewritten |-> None,
     result |-> [type |-> "COHORT_REGION_FEEDBACK", message |-> [text |-> message], data |-> data]]

\* compare_user_to_cohort_in_region over the tables U and E, given the
\* content the rewriting call returns. `queries` lists the persistence
\* calls made, `rewritten` the message handed to the rewriting call.
CompareUserToCohortInRegion(U, E, user_id, period, category, now, min_peers, content) ==
    LET n == EnsureTz(now)
        found == GetUserById(U, user_id)
    IN  IF found = None THEN CohortEarly("User not found.", [userId |-> user_id])
        ELSE LET u == found[1]
                 bucket == IncomeBucketLabel(u.monthly_income)
             IN  IF u.location = None \/ u.location = Some("")
                 THEN CohortEarly("Missing location. Set user.location during onboarding.", [userId |-> user_id])
                 ELSE IF bucket = None
                 THEN CohortEarly("Missing monthlyIncome. Set user.monthly_income during onboarding.", [userId |-> user_id, location |-> u.location[1]])
                 ELSE LET w == WindowForPeriod(period, n)
                      IN  IF w.raised THEN [raised |-> TRUE, error |-> w.error, queries |-> <<"get_user_by_id">>]
                          ELSE LET start == UtcInstant(w.start)
                                   end == UtcInstant(w.end)
                                   user_spent == SumExpenses(E, user_id, start, end, category)
                                   peers == CohortRegionPeerStats(U, E, u.location[1], bucket[1], start, end, category)
                                   peer_avg == peers[1]
                                   peer_users == peers[2]
                                   delta == RSub(RInt(user_spent), peer_avg)
                                   delta_pct == IF RLt(RInt(0), peer_avg) THEN RMul(RDiv(delta, peer_avg), RInt(100)) ELSE RInt(0)
                                   msg == CohortMessage(peer_users, min_peers, peer_avg, delta_pct, user_spent)
                                   queries == <<"get_user_by_id", "sum_expenses", "cohort_region_peer_stats">>
                               IN  IF content = RoastFailure
                                   THEN [raised |-> TRUE, error |-> "rewriting call failed", queries |-> queries]
                                   ELSE [raised |-> FALSE, queries |-> queries, rewritten |-> Some(msg),
                                         result |-> [type |-> "COHORT_REGION_FEEDBACK",
                                                     message |-> IF content = "" THEN msg ELSE [text |-> content],
                                                     data |-> [userId |-> user_id,
                                                               location |-> u.location[1],
                                                               incomeBucket |-> bucket[1],
                                                               period |-> period,
                                                               category |-> category,
                                                               userSpent |-> user_spent,
                                                               peerAvg |-> peer_avg,
                                                               peerUsers |-> peer_users,
                                                               delta |-> delta,
                                                               deltaPercent |-> delta_pct,
                                                               window |-> [start |-> IsoFormatDt(w.start), end |-> IsoFormatDt(w.end)]]]]

----------------------------------------------------------------------------
(* database.py: inserts *)

\* A primary key no row of the table T carries (uuid4()): the least number
\* not in use.
NextId(T) ==
    LET used == {T[i].id : i \in DOMAIN T}
    IN  CHOOSE n \in 1..(Len(T) + 1) : n \notin used /\ \A m \in 1..(n - 1) : m \in used

NewExpense(E, user_id, amount, category, date) ==
    [id |-> NextId(E), user_id |-> user_id, amount |-> amount,
     category |-> category, date |-> date]

\* add_expense: the table with the new row committed.
AddExpense(E, user_id, amount, category, date) ==
    Append(E, NewExpense(E, user_id, amount, category, date))

NewBudget(B, user_id, category, limit, period, start_date, end_date) ==
    [id |-> NextId(B), user_id |-> user_id, category |-> category,
     limit |-> limit, period |-> period,
     start_date |-> start_date, end_date |-> end_date]

\* add_budget: the table with the new row committed.
AddBudget(B, user_id, category, limit, period, start_date, end_date) ==
    Append(B, NewBudget(B, user_id, category, limit, period, start_date, end_date))

----------------------------------------------------------------------------
(* database.py: lookups, updates and deletes. An update or delete returns *)
(* the table as committed and the row (or flag) the function returns.     *)

\* session.get(Model, id): the position of the row, 0 when there is none.
IndexOfId(T, id) ==
    IF \E i \in DOMAIN T : T[i].id = id THEN CHOOSE i \in DOMAIN T : T[i].id = id ELSE 0

\* get_expense / get_budget
GetById(T, id) == IF IndexOfId(T, id) = 0 THEN None ELSE Some(T[IndexOfId(T, id)])

\* session.delete(row)
RemoveAt(T, i) == SubSeq(T, 1, i - 1) \o SubSeq(T, i + 1, Len(T))

\* `if value is not None: row.field = value`
OrKeep(value, kept) == IF value = None THEN kept ELSE value[1]

\* update_expense: every field given is written; the owner is not looked at.
UpdateExpense(E, expense_id, amount, category, date) ==
    LET i == IndexOfId(E, expense_id)
    IN  IF i = 0 THEN [table |-> E, row |-> None]
        ELSE LET e == [E[i] EXCEPT !.amount = OrKeep(amount, @),
                                   !.category = OrKeep(category, @),
                                   !.date = OrKeep(date, @)]
             IN  [table |-> [E EXCEPT ![i] = e], row |-> Some(e)]

\* delete_expense
DeleteExpense(E, expense_id) ==
    LET i == IndexOfId(E, expense_id)
    IN  IF i = 0 THEN [table |-> E, deleted |-> FALSE]
        ELSE [table |-> RemoveAt(E, i), deleted |-> TRUE]

\* update_budget: only a budget of user_id is touched; the dates given are
\* written as they come.
UpdateBudget(B, budget_id, user_id, category, limit, period, start_date, end_date) ==
    LET i == IndexOfId(B, budget_id)
    IN  IF i = 0 \/ B[i].user_id # user_id THEN [table |-> B, row |-> None]
        ELSE LET b == [B[i] EXCEPT !.category = OrKeep(category, @),
                                   !.limit = OrKeep(limit, @),
                                   !.period = OrKeep(period, @),
                                   !.start_date = OrKeep(start_date, @),
                                   !.end_date = OrKeep(end_date, @)]
             IN  [table |-> [B EXCEPT ![i] = b], row |-> Some(b)]

\* delete_budget
DeleteBudget(B, budget_id, user_id) ==
    LET i == IndexOfId(B, budget_id)
    IN  IF i = 0 \/ B[i].user_id # user_id THEN [table |-> B, deleted |-> FALSE]
        ELSE [table |-> RemoveAt(B, i), deleted |-> TRUE]

\* update_user_profile
UpdateUserProfile(U, user_id, location, monthly_income, budget_goal) ==
    LET i == IndexOfId(U, user_id)
    IN  IF i = 0 THEN [table |-> U, row |-> None]
        ELSE LET u == [U[i] EXCEPT !.location = IF location = None THEN @ ELSE location,
                                   !.monthly_income = IF monthly_income = None THEN @ ELSE monthly_income,
                                   !.budget_goal = IF budget_goal = None THEN @ ELSE budget_goal]
             IN  [table |-> [U EXCEPT ![i] = u], row |-> Some(u)]

----------------------------------------------------------------------------
(* Calls and their results: an operation is called while no result is    *)
(* outstanding, runs to completion in one step and leaves what it returns *)
(* in `out`; the caller then takes the result.                            *)

Idle == out = NoCall

Respond ==
    /\ out # NoCall
    /\ out' = NoCall
    /\ UNCHANGED <<users, expenses, budgets, statuses, clock>>

----------------------------------------------------------------------------
(* EvalSpec: evaluate_budget_goal on one budget over a growing expense table *)

EvalLimits == {0 - 10, 0, 100, 300}
EvalWindows == {<<Monday0, Monday1>>, <<Monday1, Monday1>>, <<Monday1, Monday0>>}
EvalAmounts == {5, 250}
EvalDates == {Monday0, Monday1}
EvalNows == {Monday0, WednesdayNoon, Monday1}
\* <<notify_percent_used, notify_ahead_of_pace_percent>>; the first pair is
\* the defaults.
EvalThresholds == {<<80, 10>>, <<5, 40>>}

EvalInit ==
    /\ users = RegisteredUsers
    /\ expenses = <<>>
    /\ \E limit \in EvalLimits, w \in EvalWindows :
          budgets = AddBudget(<<>>, "u1", "Grocery", limit, "monthly", w[1], w[2])
    /\ statuses = <<>>
    /\ clock = Monday0
    /\ out = NoCall

\* One call of db.add_expense, which returns the stored row.
EvalAddExpense(user_id, amount, date) ==
    /\ Idle
    /\ Len(expenses) < MaxEvalExpenses
    /\ expenses' = AddExpense(expenses, user_id, amount, "Grocery", date)
    /\ out' = [op |-> "add_expense",
               expense |-> NewExpense(expenses, user_id, amount, "Grocery", date)]
    /\ UNCHANGED <<users, budgets, statuses, clock>>

\* One call of evaluate_budget_goal.
EvalGoal(user_id, b, now, npu, nap, content) ==
    /\ Idle
    /\ out' = IF content = RoastFailure
              THEN [op |-> "evaluate_budget_goal", raised |-> TRUE]
              ELSE [op |-> "evaluate_budget_goal", raised |-> FALSE,
                    user_id |-> user_id, budget |-> b, now |-> now,
                    notify_percent_used |-> npu,
                    notify_ahead_of_pace_percent |-> nap,
                    result |-> EvaluateBudgetGoal(expenses, user_id, b, now, npu, nap, content)]
    /\ UNCHANGED <<users, expenses, budgets, statuses, clock>>

\* One call of progress_ratio.
EvalProgress(start, end, now) ==
    /\ Idle
    /\ out' = [op |-> "progress_ratio", start |-> start, end |-> end, now |-> now,
               result |-> ProgressRatio(start, end, now)]
    /\ UNCHANGED <<users, expenses, budgets, statuses, clock>>

ProgressInstants == {Monday0, WednesdayNoon, Monday1, Monday2}
ProgressStarts == {Monday0, Monday1}
ProgressEnds == {Monday0, Monday1, Monday2}

EvalNext ==
    \/ Respond
    \/ \E u \in Users, a \in EvalAmounts, d \in EvalDates : EvalAddExpense(u, a, d)
    \/ \E start \in ProgressStarts, end \in ProgressEnds, now \in ProgressInstants :
          EvalProgress(start, end, now)
    \/ \E i \in DOMAIN budgets, now \in EvalNows, th \in EvalThresholds,
          content \in RoastResponses :
          EvalGoal(budgets[i].user_id, budgets[i], now, th[1], th[2], content)

EvalSpec == EvalInit /\ [][EvalNext]_vars

----------------------------------------------------------------------------
(* financial_helper.py: portfolio evaluation *)

\* Whether one of the rewriting calls made for the fetched budgets fails;
\* contents[j] answers the call made for the j-th budget.
AnyRoastFails(fetched, contents) ==
    \E j \in DOMAIN fetched : contents[j] = RoastFailure

\* evaluate_all_budget_goals, given the rows list_budgets returned: one
\* flattened result per budget, in the order fetched.
EvaluateAllBudgetGoals(E, user_id, fetched, now, contents) ==
    [j \in DOMAIN fetched |->
        LET r == EvaluateBudgetGoal(E, user_id, fetched[j], now, 80, 10, contents[j])
        IN  r.data @@ [goalType |-> r.goalType, status |-> r.status,
                       shouldNotify |-> r.shouldNotify, message |-> r.message]]

\* The alert evaluate_on_new_expense builds from a result.
AlertOf(r) ==
    [type |-> "BUDGET_ALERT", status |-> r.status, message |-> r.message] @@ r.data

\* The loop of evaluate_on_new_expense over the first n fetched budgets.
RECURSIVE AlertsUpTo(_, _, _, _, _, _)
AlertsUpTo(E, user_id, fetched, now, contents, n) ==
    IF n = 0 THEN <<>>
    ELSE LET prev == AlertsUpTo(E, user_id, fetched, now, contents, n - 1)
             r == EvaluateBudgetGoal(E, user_id, fetched[n], now, 80, 10, contents[n])
         IN  IF r.shouldNotify THEN Append(prev, AlertOf(r)) ELSE prev

\* Mutant of EvaluateOnNewExpense: only the budgets of the expense's category
\* count as impacted.
EvaluateOnNewExpense_SameCategory(E, user_id, expense, fetched, now, contents) ==
    LET I == {j \in DOMAIN fetched : fetched[j].category = expense.category}
    IN  AlertsUpTo(E, user_id, RowsAt(fetched, I), now, RowsAt(contents, I), Cardinality(I))

\* evaluate_on_new_expense, given the rows list_budgets(active_only=True)
\* returned; the expense passed in is not read.
EvaluateOnNewExpense(E, user_id, expense, fetched, now, contents) ==
    AlertsUpTo(E, user_id, fetched, now, contents, Len(fetched))

----------------------------------------------------------------------------
(* database.py: serializers, budget_spent, add_budget_status *)

expense_to_json(e) ==
    [id |-> e.id, amount |-> e.amount, category |-> e.category,
     date |-> IsoFormat(e.date), userId |-> e.user_id]

budget_to_json(b, spent) ==
    [id |-> b.id, category |-> b.category, limit |-> b.limit, spent |-> spent,
     period |-> b.period, startDate |-> IsoFormat(b.start_date),
     endDate |-> IsoFormat(b.end_date), userId |-> b.user_id]

\* budget_spent: the expenses of the budget's own category in its window.
BudgetSpent(E, user_id, budget) ==
    SumExpenses(E, user_id, budget.start_date, budget.end_date, Some(budget.category))

\* add_budget_status: the table with the new notification committed.
AddBudgetStatus(S, user_id, goal_type, status, should_notify, message, data, now) ==
    Append(S, [id |-> Len(S) + 1, user_id |-> user_id, goal_type |-> goal_type,
               status |-> status, should_notify |-> should_notify,
               message |-> message, data |-> data, timestamp |-> now])

----------------------------------------------------------------------------
(* main.py: the handlers *)

\* The loop of create_expense that stores one notification per alert.
RECURSIVE PersistAlerts(_, _, _, _, _)
PersistAlerts(S, user_id, alerts, now, n) ==
    IF n = 0 THEN S
    ELSE LET alert == alerts[n]
         IN  AddBudgetStatus(PersistAlerts(S, user_id, alerts, now, n - 1),
                             user_id,
                             Get(alert, "goalType", "BUDGET"),
                             Get(alert, "status", ""),
                             Get(alert, "status", "") \in {"WARNING", "OVERSPENT"},
                             Get(alert, "message", ""),
                             Get(alert, "data", EmptyDict),
                             now)

SpecLimits == {100, 1000}
SpecWindows == {<<Monday0, Monday1>>}
SpecAmounts == {250}
SpecCategories == {"Transportation"}
ClockValues == {WednesdayNoon, Monday1}

Init ==
    /\ users = RegisteredUsers
    /\ expenses = <<>>
    /\ budgets = <<>>
    /\ statuses = <<>>
    /\ clock = WednesdayNoon
    /\ out = NoCall

\* The wall clock moves on.
Tick ==
    /\ Idle
    /\ \E t \in ClockValues : t > clock /\ clock' = t
    /\ UNCHANGED <<users, expenses, budgets, statuses, out>>

\* POST /api/budgets by an authenticated user, all fields given.
CreateBudget(user_id, category, limit, period, start_date, end_date) ==
    /\ Idle
    /\ Len(budgets) < MaxBudgets
    /\ budgets' = AddBudget(budgets, user_id, category, limit, period, start_date, end_date)
    /\ out' = LET b == NewBudget(budgets, user_id, category, limit, period, start_date, end_date)
              IN  [op |-> "create_budget", code |-> 201,
                   body |-> budget_to_json(b, BudgetSpent(expenses, user_id, b))]
    /\ UNCHANGED <<users, expenses, statuses, clock>>

\* POST /api/expenses by an authenticated user without an amount: 400.
CreateExpenseMissingField(user_id) ==
    /\ Idle
    /\ out' = [op |-> "create_expense", code |-> 400]
    /\ UNCHANGED <<users, expenses, budgets, statuses, clock>>

\* Mutant of CreateExpense: a user who already has notifications gets no
\* further ones.
CreateExpense_NotifiesOnce(user_id, amount, category, date, fetched, contents) ==
    /\ Idle
    /\ Len(expenses) < MaxExpenses
    /\ LET when == IF date = None THEN clock ELSE date[1]
           expense == NewExpense(expenses, user_id, amount, category, when)
           E1 == AddExpense(expenses, user_id, amount, category, when)
           alerts == EvaluateOnNewExpense(E1, user_id, expense, fetched, clock, contents)
       IN  /\ expenses' = E1
           /\ IF AnyRoastFails(fetched, contents)
              THEN /\ statuses' = statuses
                   /\ out' = [op |-> "create_expense", code |-> 500, user_id |-> user_id]
              ELSE /\ statuses' = IF \E i \in DOMAIN statuses : statuses[i].user_id = user_id
                                  THEN statuses
                                  ELSE PersistAlerts(statuses, user_id, alerts, clock, Len(alerts))
                   /\ out' = [op |-> "create_expense", code |-> 201, user_id |-> user_id,
                              body |-> expense_to_json(expense), alerts |-> alerts]
    /\ UNCHANGED <<users, budgets, clock>>

\* POST /api/expenses by an authenticated user: the expense is committed,
\* the active budgets are evaluated at the current time, one notification is
\* stored per alert; an exception on the way answers 500.  `date` is None
\* when the request gives none; fetched and contents are what list_budgets
\* and the rewriting calls return.
CreateExpense(user_id, amount, category, date, fetched, contents) ==
    /\ Idle
    /\ Len(expenses) < MaxExpenses
    /\ LET when == IF date = None THEN clock ELSE date[1]
           expense == NewExpense(expenses, user_id, amount, category, when)
           E1 == AddExpense(expenses, user_id, amount, category, when)
           alerts == EvaluateOnNewExpense(E1, user_id, expense, fetched, clock, contents)
       IN  /\ expenses' = E1
           /\ IF AnyRoastFails(fetched, contents)
              THEN /\ statuses' = statuses
                   /\ out' = [op |-> "create_expense", code |-> 500, user_id |-> user_id]
              ELSE /\ statuses' = PersistAlerts(statuses, user_id, alerts, clock, Len(alerts))
                   /\ out' = [op |-> "create_expense", code |-> 201, user_id |-> user_id,
                              body |-> expense_to_json(expense), alerts |-> alerts]
    /\ UNCHANGED <<users, budgets, clock>>

Next ==
    \/ Respond
    \/ Tick
    \/ \E u \in Users, l \in SpecLimits, w \in SpecWindows :
          CreateBudget(u, "Grocery", l, "monthly", w[1], w[2])
    \/ \E u \in Users : CreateExpenseMissingField(u)
    \/ \E u \in Users, a \in SpecAmounts, c \in SpecCategories, d \in {None, Some(Monday0)} :
          \E fetched \in ListBudgets(budgets, u, TRUE, clock) :
             \E contents \in [DOMAIN fetched -> RoastResponses] :
                CreateExpense(u, a, c, d, fetched, contents)

Spec == Init /\ [][Next]_vars

----------------------------------------------------------------------------
(* PortfolioSpec: evaluate_all_budget_goals and evaluate_on_new_expense over *)
(* growing budget and expense tables                                        *)

\* <<user_id, limit, start_date, end_date>> of the budgets added.
PfBudgetInputs ==
    {<<"u1", 100, Monday0, Monday1>>, <<"u1", 1000, Monday0, Monday1>>,
     <<"u1", 100, Monday1, Monday2>>, <<"u2", 100, Monday0, Monday1>>}

\* <<user_id, category>> of the expenses added: 250 each, dated Monday0.
PfExpenseInputs ==
    {<<"u1", "Grocery">>, <<"u1", "Transportation">>, <<"u2", "Grocery">>}

PfNows == {WednesdayNoon, Monday1}

\* The rewriting service answers every call of one evaluation run alike.
PfContents(fetched) == {[j \in DOMAIN fetched |-> c] : c \in RoastResponses}

PfAddBudget(user_id, limit, start_date, end_date) ==
    /\ Idle
    /\ Len(budgets) < MaxBudgets
    /\ budgets' = AddBudget(budgets, user_id, "Grocery", limit, "monthly", start_date, end_date)
    /\ out' = [op |-> "add_budget"]
    /\ UNCHANGED <<users, expenses, statuses, clock>>

PfAddExpense(user_id, category) ==
    /\ Idle
    /\ Len(expenses) < MaxExpenses
    /\ expenses' = AddExpense(expenses, user_id, 250, category, Monday0)
    /\ out' = [op |-> "add_expense"]
    /\ UNCHANGED <<users, budgets, statuses, clock>>

\* One call of evaluate_all_budget_goals.
PfEvaluateAll(user_id, now, active_only, fetched, contents) ==
    /\ Idle
    /\ out' = IF AnyRoastFails(fetched, contents)
              THEN [op |-> "evaluate_all_budget_goals", raised |-> TRUE]
              ELSE [op |-> "evaluate_all_budget_goals", raised |-> FALSE,
                    user_id |-> user_id, now |-> now, active_only |-> active_only,
                    results |-> EvaluateAllBudgetGoals(expenses, user_id, fetched, now, contents)]
    /\ UNCHANGED <<users, expenses, budgets, statuses, clock>>

\* Mutant of PfEvaluateOnNewExpense: the alerts are stored by the
\* evaluation itself.
PfEvaluateOnNewExpense_Persists(user_id, expense, now, fetched, contents) ==
    /\ Idle
    /\ LET alerts == EvaluateOnNewExpense(expenses, user_id, expense, fetched, now, contents)
       IN  IF AnyRoastFails(fetched, contents)
           THEN /\ out' = [op |-> "evaluate_on_new_expense", raised |-> TRUE]
                /\ statuses' = statuses
           ELSE /\ out' = [op |-> "evaluate_on_new_expense", raised |-> FALSE,
                           user_id |-> user_id, now |-> now, expense |-> expense,
                           alerts |-> alerts]
                /\ statuses' = PersistAlerts(statuses, user_id, alerts, now, Len(alerts))
    /\ UNCHANGED <<users, expenses, budgets, clock>>

\* One call of evaluate_on_new_expense for a stored expense.
PfEvaluateOnNewExpense(user_id, expense, now, fetched, contents) ==
    /\ Idle
    /\ out' = IF AnyRoastFails(fetched, contents)
              THEN [op |-> "evaluate_on_new_expense", raised |-> TRUE]
              ELSE [op |-> "evaluate_on_new_expense", raised |-> FALSE,
                    user_id |-> user_id, now |-> now, expense |-> expense,
                    alerts |-> EvaluateOnNewExpense(expenses, user_id, expense, fetched, now, contents)]
    /\ UNCHANGED <<users, expenses, budgets, statuses, clock>>

PfNext ==
    \/ Respond
    \/ \E b \in PfBudgetInputs : PfAddBudget(b[1], b[2], b[3], b[4])
    \/ \E e \in PfExpenseInputs : PfAddExpense(e[1], e[2])
    \/ \E u \in Users, now \in PfNows, active_only \in BOOLEAN :
          \E fetched \in ListBudgets(budgets, u, active_only, now) :
             \E contents \in PfContents(fetched) :
                PfEvaluateAll(u, now, active_only, fetched, contents)
    \/ \E u \in Users, i \in DOMAIN expenses, now \in PfNows :
          \E fetched \in ListBudgets(budgets, u, TRUE, now) :
             \E contents \in PfContents(fetched) :
                PfEvaluateOnNewExpense(u, expenses[i], now, fetched, contents)

PortfolioSpec == Init /\ [][PfNext]_vars

----------------------------------------------------------------------------
(* stats_helper.py: the pie chart *)

\* Mutant of _month_window: every month taken to be 30 days long.
MonthWindow_ThirtyDays(now) ==
    LET c == Civil(now)
        start == InstantOf(c.year, c.month, 1)
    IN  <<start, start + 30 * 24>>

\* _month_window: [first of now's month 00:00, first of the next month 00:00).
MonthWindow(now) ==
    LET c == Civil(now)
        start == InstantOf(c.year, c.month, 1)
        next == IF c.month = 12 THEN <<c.year + 1, 1>> ELSE <<c.year, c.month + 1>>
    IN  <<start, InstantOf(next[1], next[2], 1)>>

\* The window pie_expense_by_category queries: each bound that is not given
\* is taken from the month window of `now`.
PieWindow(start, end, now) ==
    IF start = None \/ end = None
    THEN LET w == MonthWindow(now)
         IN  <<IF start # None THEN start[1] ELSE w[1],
               IF end # None THEN end[1] ELSE w[2]>>
    ELSE <<start[1], end[1]>>

\* The categories the grouped query returns a row for.
PieCategoriesIn(E, user_id, start, end) ==
    {E[i].category : i \in {k \in DOMAIN E : ExpenseMatches(E[k], user_id, start, end, None)}}

\* Every arrangement of the categories C by total descending, T[c] being
\* the total of c: rows of equal total come in any order.
RECURSIVE DescendingOrders(_, _)
DescendingOrders(C, T) ==
    IF C = {} THEN {<<>>}
    ELSE LET top == {c \in C : \A d \in C : T[c] >= T[d]}
         IN  UNION {{<<c>> \o rest : rest \in DescendingOrders(C \ {c}, T)} : c \in top}

\* The grouped query of pie_expense_by_category: every row order it may
\* return, one <<category, total>> row per category, ORDER BY total DESC.
PieRows(E, user_id, start, end) ==
    LET C == PieCategoriesIn(E, user_id, start, end)
        T == [c \in C |-> SumExpenses(E, user_id, start, end, Some(c))]
    IN  {[j \in DOMAIN s |-> <<s[j], T[s[j]]>>] : s \in DescendingOrders(C, T)}

PairValues(pairs) == [j \in DOMAIN pairs |-> pairs[j][2]]

SliceOf(pair) == [label |-> pair[1], value |-> pair[2]]

\* Mutant of PieSlices: the roll-up starts only above top_n + 1 categories.
PieSlices_OffByOne(pairs, top_n, include_other) ==
    IF top_n > 0 /\ Len(pairs) > top_n + 1
    THEN LET top == SubSeq(pairs, 1, top_n)
             rest == SubSeq(pairs, top_n + 1, Len(pairs))
             other_sum == SeqSum(PairValues(rest))
             slices == [j \in DOMAIN top |-> SliceOf(top[j])]
         IN  IF include_other /\ other_sum > 0
             THEN Append(slices, [label |-> "Other", value |-> other_sum])
             ELSE slices
    ELSE [j \in DOMAIN pairs |-> SliceOf(pairs[j])]

\* The slices pie_expense_by_category builds from the rows.
PieSlices(pairs, top_n, include_other) ==
    IF top_n > 0 /\ Len(pairs) > top_n
    THEN LET top == SubSeq(pairs, 1, top_n)
             rest == SubSeq(pairs, top_n + 1, Len(pairs))
             other_sum == SeqSum(PairValues(rest))
             slices == [j \in DOMAIN top |-> SliceOf(top[j])]
         IN  IF include_other /\ other_sum > 0
             THEN Append(slices, [label |-> "Other", value |-> other_sum])
             ELSE slices
    ELSE [j \in DOMAIN pairs |-> SliceOf(pairs[j])]

\* pie_expense_by_category, given the window it resolved and the rows the
\* grouped query returned.
PieExpenseByCategory(w, pairs, top_n, include_other) ==
    LET total == SeqSum(PairValues(pairs))
        window == [start |-> IsoFormat(w[1]), end |-> IsoFormat(w[2])]
    IN  IF pairs = <<>>
        THEN [window |-> window, total |-> 0, slices |-> <<>>]
        ELSE [window |-> window, total |-> total,
              slices |-> PieSlices(pairs, top_n, include_other)]

----------------------------------------------------------------------------
(* PieSpec: pie_expense_by_category over expense tables of up to           *)
(* MaxPieCategories categories                                             *)

CategoryNames ==
    <<"Food & Dining", "Grocery", "Transportation", "Shopping / Personal",
      "Lifestyle", "Entertainment", "Health & Fitness", "Education", "Travel">>

\* 00:00 on 2026-01-01 and 12:00 on 2026-01-15.
NewYear == InstantOf(2026, 1, 1)
MidJanuary == InstantOf(2026, 1, 15) + 12

\* The amount of the expense of the i-th category: 10 * i, except that the
\* first two categories both have amount z when z is given.
PieAmount(i, z) == IF z # None /\ i <= 2 THEN z[1] ELSE 10 * i

\* u1's December expenses: one per category 1..k, then (extra) a second one
\* of category 1.
PieDecember(k, z, extra) ==
    LET F[i \in 0..k] ==
            IF i = 0 THEN <<>>
            ELSE AddExpense(F[i - 1], "u1", PieAmount(i, z), CategoryNames[i], Monday0)
    IN  IF extra /\ k > 0
        THEN AddExpense(F[k], "u1", 100, CategoryNames[1], WednesdayNoon)
        ELSE F[k]

\* The table: u1's December expenses, one expense of u1 dated at the turn
\* of the year, one December expense of u2.
PieTable(k, z, extra) ==
    AddExpense(AddExpense(PieDecember(k, z, extra),
                          "u1", 15, CategoryNames[2], NewYear),
               "u2", 999, CategoryNames[1], Monday0)

PieInit ==
    /\ users = RegisteredUsers
    /\ \E k \in 0..MaxPieCategories, z \in {None, Some(0), Some(20)}, extra \in BOOLEAN :
          expenses = PieTable(k, z, extra)
    /\ budgets = <<>>
    /\ statuses = <<>>
    /\ clock = WednesdayNoon
    /\ out = NoCall

\* One call of pie_expense_by_category; `now` None is the current time.
Pie(user_id, start, end, now, top_n, include_other) ==
    LET w == PieWindow(start, end, IF now = None THEN clock ELSE now[1])
    IN  /\ Idle
        /\ \E pairs \in PieRows(expenses, user_id, w[1], w[2]) :
              out' = [op |-> "pie_expense_by_category", user_id |-> user_id,
                      start |-> start, end |-> end,
                      now |-> IF now = None THEN clock ELSE now[1],
                      top_n |-> top_n, include_other |-> include_other,
                      result |-> PieExpenseByCategory(w, pairs, top_n, include_other)]
        /\ UNCHANGED <<users, expenses, budgets, statuses, clock>>

PieStarts == {None, Some(Monday0), Some(Monday1)}
PieEnds == {None, Some(Monday1), Some(NewYear)}
PieNows == {None, Some(MidJanuary)}
PieTopNs == {0 - 1, 0, 1, 2, 5}

PieNext ==
    \/ Respond
    \/ \E u \in Users, start \in PieStarts, end \in PieEnds, now \in PieNows,
          top_n \in PieTopNs, include_other \in BOOLEAN :
          Pie(u, start, end, now, top_n, include_other)

PieSpec == PieInit /\ [][PieNext]_vars

----------------------------------------------------------------------------
(* SeriesSpec: window_for_period, trend_series, weekly_spend_series and    *)
(* current_spend_summary over a growing expense table                      *)

\* Saturday 2025-12-06 10:00, Sunday 2025-12-07 23:00, 2025-12-31 23:00,
\* 2026-02-07 16:00, 2026-03-01 00:00.
Saturday10 == 5 * 24 + 10
SundayLate == 6 * 24 + 23
NewYearsEve == InstantOf(2025, 12, 31) + 23
February7 == InstantOf(2026, 2, 7) + 16
March1 == InstantOf(2026, 3, 1)
\* 2026-03-31 02:00, read on a clock five hours ahead of UTC.
March31 == InstantOf(2026, 3, 31) + 2

WindowWalls == {Monday0, Saturday10, SundayLate, NewYearsEve, February7, March1}
WindowOffsets == {None, Some(0), Some(5), Some(0 - 8)}
WindowPeriods == Periods \cup {"daily", ""}

\* `now` as the series functions are called: omitted, a UTC datetime, or a
\* datetime of another offset.
SeriesNows ==
    {None, Some(UtcDateTime(NewYearsEve)), Some(UtcDateTime(February7)),
     Some(DateTime(March31, Some(5)))}
SeriesPeriods == Periods \cup {"daily"}
SeriesCategories == {None, Some("Grocery")}

\* <<user_id, amount, category, date>> of the expenses added.
SeriesExpenseInputs ==
    {<<"u1", 10, "Grocery", WednesdayNoon>>, <<"u1", 20, "Travel", Monday0>>,
     <<"u1", 40, "Grocery", Monday0 - 7 * 24>>, <<"u1", 80, "Grocery", Monday1>>,
     <<"u1", 160, "Travel", InstantOf(2026, 1, 31)>>, <<"u2", 320, "Grocery", Monday0>>}

SeriesInit ==
    /\ users = RegisteredUsers
    /\ expenses = <<>>
    /\ budgets = <<>>
    /\ statuses = <<>>
    /\ clock = WednesdayNoon
    /\ out = NoCall

\* `now or utc_now()`
NowOr(now) == IF now = None THEN UtcDateTime(clock) ELSE now[1]

SeriesAddExpense(user_id, amount, category, date) ==
    /\ Idle
    /\ Len(expenses) < MaxSeriesExpenses
    /\ expenses' = AddExpense(expenses, user_id, amount, category, date)
    /\ out' = [op |-> "add_expense",
               expense |-> NewExpense(expenses, user_id, amount, category, date)]
    /\ UNCHANGED <<users, budgets, statuses, clock>>

\* One call of window_for_period.
WindowCall(period, now) ==
    /\ Idle
    /\ out' = [op |-> "window_for_period", period |-> period, now |-> now,
               result |-> WindowForPeriod(period, now)]
    /\ UNCHANGED <<users, expenses, budgets, statuses, clock>>

\* One call of trend_series.
TrendCall(user_id, period, buckets, now) ==
    /\ Idle
    /\ out' = [op |-> "trend_series", user_id |-> user_id, period |-> period,
               buckets |-> buckets, now |-> NowOr(now),
               result |-> TrendSeries(expenses, user_id, period, buckets, NowOr(now))]
    /\ UNCHANGED <<users, expenses, budgets, statuses, clock>>

\* One call of weekly_spend_series.
WeeklyCall(user_id, weeks, category, now) ==
    /\ Idle
    /\ out' = [op |-> "weekly_spend_series", user_id |-> user_id, weeks |-> weeks,
               category |-> category, now |-> NowOr(now),
               result |-> WeeklySpendSeries(expenses, user_id, weeks, category, NowOr(now))]
    /\ UNCHANGED <<users, expenses, budgets, statuses, clock>>

\* One call of current_spend_summary.
SummaryCall(user_id, period, now) ==
    /\ Idle
    /\ out' = [op |-> "current_spend_summary", user_id |-> user_id, period |-> period,
               now |-> NowOr(now),
               result |-> CurrentSpendSummary(expenses, user_id, period, NowOr(now))]
    /\ UNCHANGED <<users, expenses, budgets, statuses, clock>>

SeriesNext ==
    \/ Respond
    \/ \E e \in SeriesExpenseInputs : SeriesAddExpense(e[1], e[2], e[3], e[4])
    \/ \E period \in WindowPeriods, wall \in WindowWalls, tz \in WindowOffsets :
          WindowCall(period, DateTime(wall, tz))
    \/ \E u \in Users, period \in SeriesPeriods, buckets \in 0..MaxBuckets, now \in SeriesNows :
          TrendCall(u, period, buckets, now)
    \/ \E u \in Users, weeks \in 0..MaxBuckets, category \in SeriesCategories, now \in SeriesNows :
          WeeklyCall(u, weeks, category, now)
    \/ \E u \in Users, period \in SeriesPeriods, now \in SeriesNows :
          SummaryCall(u, period, now)

SeriesSpec == SeriesInit /\ [][SeriesNext]_vars

----------------------------------------------------------------------------
(* CohortSpec: the income buckets, the peer query and the peer comparison  *)
(* over drawn user profiles and a growing expense table                    *)

UserRow(id, location, monthly_income) ==
    [id |-> id, location |-> location, monthly_income |-> monthly_income, budget_goal |-> None]

\* <<location, monthly_income>> of u1.
CohortProfiles ==
    {<<None, Some(Wide(3000))>>, <<Some(""), Some(Wide(3000))>>,
     <<Some("Boston"), None>>, <<Some("Boston"), Some(Wide(3000))>>,
     <<Some("Boston"), Some(Wide(13000))>>, <<Some("Boston"), Some(TenToThe18)>>}

\* The income of u2, who lives in Boston: inside and just outside the
\* bucket of 3000.
CohortPeerIncomes == {Wide(3999), Wide(4000)}

\* <<user_id, amount, category, date>> of the expenses added.
CohortExpenseInputs ==
    {<<"u1", 115, "Grocery", Monday0>>, <<"u1", 0, "Travel", Monday0>>,
     <<"u2", 85, "Grocery", WednesdayNoon>>, <<"u2", 50, "Travel", Monday0>>,
     <<"u2", 85, "Grocery", InstantOf(2026, 1, 1)>>, <<"u3", 100, "Grocery", Monday0>>}

CohortUsers == {"u1", "u2", "u9"}
CohortPeriods == {"monthly", "daily"}
CohortCategories == {None, Some("Grocery")}
CohortMinPeers == {1, 2}
CohortLocations == {"Boston", "Austin"}
CohortLabels == {<<Wide(2500), "-", Wide(4000)>>, <<Wide(13000), "+">>}
CohortIncomes ==
    {None, Some(Wide(0)), Some(Wide(2499)), Some(Wide(2500)), Some(Wide(3999)),
     Some(Wide(4000)), Some(Wide(8999)), Some(Wide(12999)), Some(Wide(13000)),
     Some(Wide(250000)), Some(TenToThe18)}

CohortInit ==
    /\ \E p \in CohortProfiles, peer \in CohortPeerIncomes :
          users = <<UserRow("u1", p[1], p[2]),
                    UserRow("u2", Some("Boston"), Some(peer)),
                    UserRow("u3", Some("Austin"), Some(Wide(3000)))>>
    /\ expenses = <<>>
    /\ budgets = <<>>
    /\ statuses = <<>>
    /\ clock = WednesdayNoon
    /\ out = NoCall

CohortAddExpense(user_id, amount, category, date) ==
    /\ Idle
    /\ Len(expenses) < MaxCohortExpenses
    /\ expenses' = AddExpense(expenses, user_id, amount, category, date)
    /\ out' = [op |-> "add_expense",
               expense |-> NewExpense(expenses, user_id, amount, category, date)]
    /\ UNCHANGED <<users, budgets, statuses, clock>>

\* One call of income_bucket_label.
LabelCall(monthly_income) ==
    /\ Idle
    /\ out' = [op |-> "income_bucket_label", monthly_income |-> monthly_income,
               result |-> IncomeBucketLabel(monthly_income)]
    /\ UNCHANGED <<users, expenses, budgets, statuses, clock>>

\* One call of income_bucket_range.
RangeCall(label) ==
    /\ Idle
    /\ out' = [op |-> "income_bucket_range", label |-> label,
               result |-> IncomeBucketRange(label)]
    /\ UNCHANGED <<users, expenses, budgets, statuses, clock>>

\* One call of cohort_region_peer_stats.
PeerStatsCall(location, bucket_label, start, end, category) ==
    /\ Idle
    /\ out' = [op |-> "cohort_region_peer_stats", location |-> location,
               bucket_label |-> bucket_label, start |-> start, end |-> end,
               category |-> category,
               result |-> CohortRegionPeerStats(users, expenses, location, bucket_label, start, end, category)]
    /\ UNCHANGED <<users, expenses, budgets, statuses, clock>>

\* One call of compare_user_to_cohort_in_region.
CompareCall(user_id, period, category, now, min_peers, content) ==
    /\ Idle
    /\ out' = [op |-> "compare_user_to_cohort_in_region", user_id |-> user_id,
               period |-> period, category |-> category, now |-> NowOr(now),
               min_peers |-> min_peers, content |-> content,
               result |-> CompareUserToCohortInRegion(users, expenses, user_id, period, category, NowOr(now), min_peers, content)]
    /\ UNCHANGED <<users, expenses, budgets, statuses, clock>>

CohortNext ==
    \/ Respond
    \/ \E e \in CohortExpenseInputs : CohortAddExpense(e[1], e[2], e[3], e[4])
    \/ \E x \in CohortIncomes : LabelCall(x)
    \/ \E label \in CohortLabels : RangeCall(label)
    \/ \E location \in CohortLocations, label \in CohortLabels, category \in CohortCategories :
          PeerStatsCall(location, label, Monday0, InstantOf(2026, 1, 1), category)
    \/ \E u \in CohortUsers, period \in CohortPeriods, category \in CohortCategories,
          min_peers \in CohortMinPeers, content \in RoastResponses :
          CompareCall(u, period, category, None, min_peers, content)
    \/ \E period \in {"weekly", "daily", ""} : WindowCall(period, DateTime(Saturday10, None))
    \/ \E period \in CohortPeriods, buckets \in {0, 2} : TrendCall("u1", period, buckets, None)
    \/ \E period \in CohortPeriods : SummaryCall("u1", period, None)

CohortSpec == CohortInit /\ [][CohortNext]_vars

----------------------------------------------------------------------------
(* RaceSpec: one evaluate_budget_goal in flight while other requests insert *)
(* expenses. The call is split where it touches the table: its entry, the  *)
(* one query of sum_expenses, and the derivation and return. `out` holds   *)
(* the locals of the call in flight; began and ended record how many rows  *)
(* the table held when the call was entered and when it returned.          *)

\* <<user_id, amount, date>> of the expenses inserted meanwhile.
RaceExpenseInputs == {<<"u1", 60, Monday0>>, <<"u1", 250, Monday1>>, <<"u2", 5, Monday0>>}
RaceNows == {Monday0, WednesdayNoon}

RaceInit ==
    /\ users = RegisteredUsers
    /\ expenses = <<>>
    /\ budgets = AddBudget(<<>>, "u1", "Grocery", 100, "monthly", Monday0, Monday1)
    /\ statuses = <<>>
    /\ clock = Monday0
    /\ out = NoCall

\* db.add_expense committed by another request, at any moment.
RaceInsert(user_id, amount, date) ==
    /\ Len(expenses) < MaxRaceExpenses
    /\ expenses' = AddExpense(expenses, user_id, amount, "Grocery", date)
    /\ UNCHANGED <<users, budgets, statuses, clock, out>>

\* evaluate_budget_goal is entered: now, start and end are fixed.
RaceCall(b, now) ==
    /\ Idle
    /\ out' = [op |-> "evaluate_budget_goal", pc |-> "called",
               user_id |-> b.user_id, budget |-> b, now |-> now,
               began |-> Len(expenses)]
    /\ UNCHANGED <<users, expenses, budgets, statuses, clock>>

\* spent = sum_expenses(...): one SELECT over the committed rows.
RaceQuery ==
    /\ out # NoCall /\ out.pc = "called"
    /\ out' = [pc |-> "queried",
               spent |-> SumExpenses(expenses, out.user_id, out.budget.start_date,
                                     out.budget.end_date, None)] @@ out
    /\ UNCHANGED <<users, expenses, budgets, statuses, clock>>

\* Mutant of RaceReturn: the classification and the payload are derived
\* from a second reading of the table.
RaceReturn_ReadsAgain(content) ==
    /\ out # NoCall /\ out.pc = "queried"
    /\ out' = IF content = RoastFailure
              THEN [pc |-> "returned", raised |-> TRUE, ended |-> Len(expenses)] @@ out
              ELSE [pc |-> "returned", raised |-> FALSE, ended |-> Len(expenses),
                    result |-> [EvaluateBudgetGoal(expenses, out.user_id, out.budget, out.now, 80, 10, content)
                                EXCEPT !.data.spent = out.spent]] @@ out
    /\ UNCHANGED <<users, expenses, budgets, statuses, clock>>

\* The rest of evaluate_budget_goal: the derivation from `spent`, the
\* rewriting call, the return.
RaceReturn(content) ==
    /\ out # NoCall /\ out.pc = "queried"
    /\ out' = IF content = RoastFailure
              THEN [pc |-> "returned", raised |-> TRUE, ended |-> Len(expenses)] @@ out
              ELSE [pc |-> "returned", raised |-> FALSE, ended |-> Len(expenses),
                    result |-> EvaluateFromSpent(out.spent, out.budget, out.now, 80, 10, content)] @@ out
    /\ UNCHANGED <<users, expenses, budgets, statuses, clock>>

\* The caller takes the result.
RaceRespond ==
    /\ out # NoCall /\ out.pc = "returned"
    /\ out' = NoCall
    /\ UNCHANGED <<users, expenses, budgets, statuses, clock>>

RaceNext ==
    \/ \E e \in RaceExpenseInputs : RaceInsert(e[1], e[2], e[3])
    \/ \E i \in DOMAIN budgets, now \in RaceNows : RaceCall(budgets[i], now)
    \/ RaceQuery
    \/ \E content \in RoastResponses : RaceReturn(content)
    \/ RaceRespond

RaceSpec == RaceInit /\ [][RaceNext]_vars

----------------------------------------------------------------------------
(* financial_helper.py: budgets_with_spent; main.py: the budget handlers *)

\* budgets_with_spent, given the rows list_budgets returned: `spent` is the
\* sum over the window, whatever the category.
BudgetsWithSpent(E, user_id, fetched) ==
    [j \in DOMAIN fetched |->
        budget_to_json(fetched[j],
                       SumExpenses(E, user_id, fetched[j].start_date, fetched[j].end_date, None))]

\* GET /api/budgets by an authenticated user.
GetBudgets(user_id, active_only, fetched) ==
    /\ Idle
    /\ out' = [op |-> "get_budgets", code |-> 200, user_id |-> user_id,
               active_only |-> active_only, fetched |-> fetched,
               body |-> [j \in DOMAIN fetched |->
                           budget_to_json(fetched[j], BudgetSpent(expenses, user_id, fetched[j]))]]
    /\ UNCHANGED <<users, expenses, budgets, statuses, clock>>

\* One call of budgets_with_spent.
BudgetsWithSpentCall(user_id, active_only, fetched) ==
    /\ Idle
    /\ out' = [op |-> "budgets_with_spent", user_id |-> user_id,
               active_only |-> active_only, fetched |-> fetched,
               result |-> BudgetsWithSpent(expenses, user_id, fetched)]
    /\ UNCHANGED <<users, expenses, budgets, statuses, clock>>

\* PUT /api/budgets/<id> by an authenticated user: the fields of the body
\* are written to the user's budget; 404 when it is not theirs.
PutBudget(user_id, budget_id, category, limit, period, start_date, end_date) ==
    /\ Idle
    /\ LET r == UpdateBudget(budgets, budget_id, user_id, category, limit, period, start_date, end_date)
       IN  /\ budgets' = r.table
           /\ out' = IF r.row = None
                     THEN [op |-> "update_budget", code |-> 404, user_id |-> user_id]
                     ELSE [op |-> "update_budget", code |-> 200, user_id |-> user_id,
                           body |-> budget_to_json(r.row[1], BudgetSpent(expenses, user_id, r.row[1]))]
    /\ UNCHANGED <<users, expenses, statuses, clock>>

\* DELETE /api/budgets/<id> by an authenticated user.
DelBudget(user_id, budget_id) ==
    /\ Idle
    /\ LET r == DeleteBudget(budgets, budget_id, user_id)
       IN  /\ budgets' = r.table
           /\ out' = [op |-> "delete_budget", user_id |-> user_id,
                      code |-> IF r.deleted THEN 200 ELSE 404]
    /\ UNCHANGED <<users, expenses, statuses, clock>>

----------------------------------------------------------------------------
(* BudgetSpec: the budget handlers and the two listings over growing tables *)

\* <<start_date, end_date>> as the requests give them; the second ends
\* before it starts.
BudgetWindows == {<<Monday0, Monday1>>, <<Monday1, Monday0>>}

\* The bodies of PUT /api/budgets/<id>: <<category, limit, end_date>>.
BudgetPatches ==
    {<<Some("Transportation"), Some(1000), None>>,
     <<None, None, Some(Monday0)>>}

\* <<user_id, amount, category>> of the expenses added, dated Monday0.
BudgetExpenseInputs == {<<"u1", 250, "Transportation">>, <<"u1", 60, "Grocery">>}

BudgetAddExpense(user_id, amount, category) ==
    /\ Idle
    /\ Len(expenses) < MaxExpenses
    /\ expenses' = AddExpense(expenses, user_id, amount, category, Monday0)
    /\ out' = [op |-> "add_expense"]
    /\ UNCHANGED <<users, budgets, statuses, clock>>

BudgetNext ==
    \/ Respond
    \/ \E e \in BudgetExpenseInputs : BudgetAddExpense(e[1], e[2], e[3])
    \/ \E u \in Users, w \in BudgetWindows : CreateBudget(u, "Grocery", 100, "monthly", w[1], w[2])
    \/ \E u \in Users, id \in 1..(MaxBudgets + 1), p \in BudgetPatches :
          PutBudget(u, id, p[1], p[2], None, None, p[3])
    \/ \E u \in Users, id \in 1..(MaxBudgets + 1) : DelBudget(u, id)
    \/ \E u \in Users, active_only \in BOOLEAN :
          \E fetched \in ListBudgets(budgets, u, active_only, clock) :
             \/ GetBudgets(u, active_only, fetched)
             \/ BudgetsWithSpentCall(u, active_only, fetched)

BudgetSpec == Init /\ [][BudgetNext]_vars

----------------------------------------------------------------------------
(* main.py: update_profile *)

\* budget_proportions, in percent, in the order the dict is written.
BudgetProportions ==
    <<<<"Food & Dining", 30>>, <<"Grocery", 20>>, <<"Transportation", 20>>,
      <<"Shopping / Personal", 15>>, <<"Lifestyle", 15>>>>

\* total_budget * proportion; exact for the goals of the model, which are
\* multiples of 20.
ProportionOf(total_budget, percent) == (total_budget * percent) \div 100

\* The loop of update_profile over the first n proportions.
RECURSIVE GenerateBudgets(_, _, _, _, _, _)
GenerateBudgets(B, user_id, total_budget, start_date, end_date, n) ==
    IF n = 0 THEN B
    ELSE AddBudget(GenerateBudgets(B, user_id, total_budget, start_date, end_date, n - 1),
                   user_id, BudgetProportions[n][1],
                   ProportionOf(total_budget, BudgetProportions[n][2]),
                   "monthly", start_date, end_date)

user_to_json(u) ==
    [id |-> u.id, location |-> u.location, monthlyIncome |-> u.monthly_income,
     budgetGoal |-> u.budget_goal]

\* Mutant of PutProfile: budgets are generated only when the request
\* carries a budgetGoal.
PutProfile_OnlyWhenGoalGiven(user_id, location, monthly_income, budget_goal) ==
    /\ Idle
    /\ Len(budgets) + 5 <= 5 * MaxProfileUpdates + MaxBudgets
    /\ LET r == UpdateUserProfile(users, user_id, location, monthly_income, budget_goal)
       IN  /\ users' = r.table
           /\ IF r.row = None
              THEN /\ budgets' = budgets
                   /\ out' = [op |-> "update_profile", code |-> 500, user_id |-> user_id]
              ELSE LET u == r.row[1]
                       w == WindowForPeriod("monthly", UtcDateTime(clock))
                   IN  /\ budgets' =
                              IF budget_goal # None /\ u.budget_goal # None /\ u.budget_goal[1] > 0
                              THEN GenerateBudgets(budgets, u.id, u.budget_goal[1],
                                                   UtcInstant(w.start), UtcInstant(w.end),
                                                   Len(BudgetProportions))
                              ELSE budgets
                       /\ out' = [op |-> "update_profile", code |-> 200, user_id |-> user_id,
                                  budgetGoal |-> budget_goal, body |-> user_to_json(u)]
    /\ UNCHANGED <<expenses, statuses, clock>>

\* PUT /api/user/profile by an authenticated user: the fields of the body
\* are written, and whenever the stored budget_goal is then positive five
\* monthly budgets are added for the month of the current time.
PutProfile(user_id, location, monthly_income, budget_goal) ==
    /\ Idle
    /\ Len(budgets) + 5 <= 5 * MaxProfileUpdates + MaxBudgets
    /\ LET r == UpdateUserProfile(users, user_id, location, monthly_income, budget_goal)
       IN  /\ users' = r.table
           /\ IF r.row = None
              THEN /\ budgets' = budgets
                   /\ out' = [op |-> "update_profile", code |-> 500, user_id |-> user_id]
              ELSE LET u == r.row[1]
                       w == WindowForPeriod("monthly", UtcDateTime(clock))
                   IN  /\ budgets' =
                              IF u.budget_goal # None /\ u.budget_goal[1] > 0
                              THEN GenerateBudgets(budgets, u.id, u.budget_goal[1],
                                                   UtcInstant(w.start), UtcInstant(w.end),
                                                   Len(BudgetProportions))
                              ELSE budgets
                       /\ out' = [op |-> "update_profile", code |-> 200, user_id |-> user_id,
                                  budgetGoal |-> budget_goal, body |-> user_to_json(u)]
    /\ UNCHANGED <<expenses, statuses, clock>>

----------------------------------------------------------------------------
(* ProfileSpec: profile updates and hand-made budgets in December and January *)

\* budgetGoal of the request: absent, zero, or a positive goal.
ProfileGoals == {None, Some(0), Some(100), Some(300)}
\* Every request carries a location.
ProfileLocations == {Some("Boston")}

\* The wall clock moves into January.
ProfileTick ==
    /\ Idle
    /\ clock < MidJanuary
    /\ clock' = MidJanuary
    /\ UNCHANGED <<users, expenses, budgets, statuses, out>>

ProfileNext ==
    \/ Respond
    \/ ProfileTick
    \/ \E u \in {"u1"} : CreateBudget(u, "Travel", 100, "monthly", Monday0, Monday1)
    \/ \E u \in Users, location \in ProfileLocations, goal \in ProfileGoals :
          PutProfile(u, location, None, goal)

ProfileSpec == Init /\ [][ProfileNext]_vars

----------------------------------------------------------------------------
(* ExpenseSpec: the expense handlers over two budgets of one user *)

\* Mutant of CreateExpenseStoreFails: the failed request is rolled back.
CreateExpenseStoreFails_RollsBack(user_id, amount, category, date, fetched, contents, stored) ==
    /\ Idle
    /\ Len(expenses) < MaxExpenses
    /\ ~AnyRoastFails(fetched, contents)
    /\ LET when == IF date = None THEN clock ELSE date[1]
           expense == NewExpense(expenses, user_id, amount, category, when)
           E1 == AddExpense(expenses, user_id, amount, category, when)
           alerts == EvaluateOnNewExpense(E1, user_id, expense, fetched, clock, contents)
       IN  /\ stored < Len(alerts)
           /\ expenses' = expenses
           /\ statuses' = statuses
           /\ out' = [op |-> "create_expense", code |-> 500, user_id |-> user_id]
    /\ UNCHANGED <<users, budgets, clock>>

\* POST /api/expenses when the (stored + 1)-th add_budget_status raises:
\* the expense and the first `stored` notifications are committed, the
\* handler answers 500.
CreateExpenseStoreFails(user_id, amount, category, date, fetched, contents, stored) ==
    /\ Idle
    /\ Len(expenses) < MaxExpenses
    /\ ~AnyRoastFails(fetched, contents)
    /\ LET when == IF date = None THEN clock ELSE date[1]
           expense == NewExpense(expenses, user_id, amount, category, when)
           E1 == AddExpense(expenses, user_id, amount, category, when)
           alerts == EvaluateOnNewExpense(E1, user_id, expense, fetched, clock, contents)
       IN  /\ stored < Len(alerts)
           /\ expenses' = E1
           /\ statuses' = PersistAlerts(statuses, user_id, alerts, clock, stored)
           /\ out' = [op |-> "create_expense", code |-> 500, user_id |-> user_id]
    /\ UNCHANGED <<users, budgets, clock>>

\* Mutant of PutExpense: the owner is checked before the row is written.
PutExpense_ChecksOwnerFirst(user_id, expense_id, amount, category, date) ==
    /\ Idle
    /\ LET e == GetById(expenses, expense_id)
           r == UpdateExpense(expenses, expense_id, amount, category, date)
       IN  IF e = None \/ e[1].user_id # user_id
           THEN /\ expenses' = expenses
                /\ out' = [op |-> "update_expense", code |-> 404, user_id |-> user_id,
                           expense_id |-> expense_id]
           ELSE /\ expenses' = r.table
                /\ out' = [op |-> "update_expense", code |-> 200, user_id |-> user_id,
                           expense_id |-> expense_id, body |-> expense_to_json(r.row[1])]
    /\ UNCHANGED <<users, budgets, statuses, clock>>

\* PUT /api/expenses/<id> by an authenticated user: the row is updated and
\* committed, then the handler looks at its owner.
PutExpense(user_id, expense_id, amount, category, date) ==
    /\ Idle
    /\ LET r == UpdateExpense(expenses, expense_id, amount, category, date)
       IN  /\ expenses' = r.table
           /\ out' = IF r.row = None \/ r.row[1].user_id # user_id
                     THEN [op |-> "update_expense", code |-> 404, user_id |-> user_id,
                           expense_id |-> expense_id]
                     ELSE [op |-> "update_expense", code |-> 200, user_id |-> user_id,
                           expense_id |-> expense_id, body |-> expense_to_json(r.row[1])]
    /\ UNCHANGED <<users, budgets, statuses, clock>>

\* DELETE /api/expenses/<id> by an authenticated user: the row is fetched,
\* its owner compared, and only then deleted.
DelExpense(user_id, expense_id) ==
    /\ Idle
    /\ LET e == GetById(expenses, expense_id)
       IN  IF e = None \/ e[1].user_id # user_id
           THEN /\ expenses' = expenses
                /\ out' = [op |-> "delete_expense", code |-> 404, user_id |-> user_id,
                           expense_id |-> expense_id]
           ELSE /\ expenses' = DeleteExpense(expenses, expense_id).table
                /\ out' = [op |-> "delete_expense", code |-> 200, user_id |-> user_id,
                           expense_id |-> expense_id]
    /\ UNCHANGED <<users, budgets, statuses, clock>>

\* Two budgets of u1 on the first week, limits 100 and 1000.
ExpenseInit ==
    /\ users = RegisteredUsers
    /\ expenses = <<>>
    /\ budgets = AddBudget(AddBudget(<<>>, "u1", "Grocery", 100, "monthly", Monday0, Monday1),
                           "u1", "Transportation", 1000, "monthly", Monday0, Monday1)
    /\ statuses = <<>>
    /\ clock = WednesdayNoon
    /\ out = NoCall

ExpenseAmounts == {250}
\* The requests carry no date: the expense is dated at the current time.
ExpenseDates == {None}
\* <<amount, category, date>> of an update request.
ExpensePatches == {<<Some(500), None, None>>}
\* The rewriting service leaves every message alone, or fails.
ExpenseContents(fetched) == {[j \in DOMAIN fetched |-> c] : c \in {"", RoastFailure}}

ExpenseNext ==
    \/ Respond
    \/ Tick
    \/ \E u \in {"u1"}, a \in ExpenseAmounts, d \in ExpenseDates :
          \E fetched \in ListBudgets(budgets, u, TRUE, clock) :
             \E contents \in ExpenseContents(fetched) :
                \/ CreateExpense(u, a, "Grocery", d, fetched, contents)
                \/ \E stored \in 0..Len(fetched) :
                      CreateExpenseStoreFails(u, a, "Grocery", d, fetched, contents, stored)
    \/ \E u \in Users, id \in 1..MaxExpenses, patch \in ExpensePatches :
          PutExpense(u, id, patch[1], patch[2], patch[3])
    \/ \E id \in 1..MaxBudgets : DelBudget("u1", id)

ExpenseSpec == ExpenseInit /\ [][ExpenseNext]_vars

----------------------------------------------------------------------------
(* OwnerSpec: two users create, update and delete expenses by id *)

\* <<amount, category, date>> of an update request.
OwnerPatches ==
    {<<Some(500), None, None>>, <<None, Some("Lifestyle"), Some(Monday1)>>, <<None, None, None>>}

OwnerNext ==
    \/ Respond
    \/ \E u \in Users : CreateExpense(u, 250, "Grocery", None, <<>>, <<>>)
    \/ \E u \in Users, id \in 1..(MaxExpenses + 1), patch \in OwnerPatches :
          PutExpense(u, id, patch[1], patch[2], patch[3])
    \/ \E u \in Users, id \in 1..(MaxExpenses + 1) : DelExpense(u, id)

OwnerSpec == Init /\ [][OwnerNext]_vars

----------------------------------------------------------------------------
(* AnalyticsSpec: the evaluation and analytics functions called between *)
(* requests that fill the four tables                                     *)

AnalyticsInit ==
    /\ users = <<UserRow("u1", Some("Boston"), Some(Wide(3000))),
                 UserRow("u2", Some("Boston"), Some(Wide(3999)))>>
    /\ expenses = <<>>
    /\ budgets = <<>>
    /\ statuses = <<>>
    /\ clock = WednesdayNoon
    /\ out = NoCall

AnalyticsNows == {None, Some(UtcDateTime(NewYearsEve))}

AnalyticsNext ==
    \/ Respond
    \/ CreateBudget("u1", "Grocery", 100, "monthly", Monday0, Monday1)
    \/ \E u \in {"u1"}, c \in {"Grocery", "Travel"} :
          \E fetched \in ListBudgets(budgets, u, TRUE, clock) :
             CreateExpense(u, 250, c, None, fetched, [j \in DOMAIN fetched |-> ""])
    \/ \E location \in ProfileLocations : PutProfile("u2", location, None, Some(0))
    \/ \E i \in DOMAIN budgets, content \in RoastResponses :
          EvalGoal(budgets[i].user_id, budgets[i], clock, 80, 10, content)
    \/ \E u \in Users, active_only \in BOOLEAN :
          \E fetched \in ListBudgets(budgets, u, active_only, clock) :
             \E contents \in PfContents(fetched) :
                \/ PfEvaluateAll(u, clock, active_only, fetched, contents)
                \/ BudgetsWithSpentCall(u, active_only, fetched)
    \/ \E u \in Users, i \in DOMAIN expenses :
          \E fetched \in ListBudgets(budgets, u, TRUE, clock) :
             \E contents \in PfContents(fetched) :
                PfEvaluateOnNewExpense(u, expenses[i], clock, fetched, contents)
    \/ \E u \in Users, now \in AnalyticsNows :
          \/ TrendCall(u, "monthly", 2, now)
          \/ WeeklyCall(u, 2, None, now)
          \/ Pie(u, None, None, None, 1, TRUE)
    \/ \E u \in Users, content \in RoastResponses :
          CompareCall(u, "monthly", None, None, 1, content)

AnalyticsSpec == AnalyticsInit /\ [][AnalyticsNext]_vars

----------------------------------------------------------------------------
(* Properties of evaluate_budget_goal (checked under EvalSpec) *)

IsEval(o) == o.op = "evaluate_budget_goal" /\ ~o.raised

RECURSIVE SetSum(_, _)
SetSum(S, f) ==
    IF S = {} THEN 0
    ELSE LET x == CHOOSE y \in S : TRUE IN f[x] + SetSum(S \ {x}, f)

\* The expenses of user_id dated in [b.start_date, b.end_date), added up
\* row by row from the table.
WindowSpent(user_id, b) ==
    SetSum({i \in DOMAIN expenses :
               /\ expenses[i].user_id = user_id
               /\ b.start_date <= expenses[i].date
               /\ expenses[i].date < b.end_date},
           [i \in DOMAIN expenses |-> expenses[i].amount])

\* C1: whenever spent > limit the result is OVERSPENT with shouldNotify true,
\* at every evaluation instant, for every threshold pair and every limit,
\* limit <= 0 included.
C1_OverspentPriority ==
    IsEval(out) =>
        (WindowSpent(out.user_id, out.budget) > out.budget.limit
            => /\ out.result.status = "OVERSPENT"
               /\ out.result.shouldNotify = TRUE)

\* limit = 0, spent = 5 is OVERSPENT.
C1_Witness ==
    /\ IsEval(out)
    /\ out.budget.limit = 0
    /\ WindowSpent(out.user_id, out.budget) = 5
    /\ out.result.status = "OVERSPENT"
    /\ out.result.shouldNotify

\* The two warning tests in integers: elapsed / total is the clamped share
\* of the window gone by at `now`.
ElapsedOf(b, now) ==
    IF b.end_date <= b.start_date THEN 1
    ELSE IF now <= b.start_date THEN 0
    ELSE IF now >= b.end_date THEN b.end_date - b.start_date
    ELSE now - b.start_date

TotalOf(b) == IF b.end_date <= b.start_date THEN 1 ELSE b.end_date - b.start_date

UsedReached(spent, b, npu) ==
    IF b.limit > 0 THEN spent * 100 >= npu * b.limit ELSE 0 >= npu

AheadReached(spent, b, now, nap) ==
    IF b.limit > 0
    THEN spent * 100 * TotalOf(b) - 100 * ElapsedOf(b, now) * b.limit
            >= nap * b.limit * TotalOf(b)
    ELSE 0 - 100 * ElapsedOf(b, now) >= nap * TotalOf(b)

\* C2: when spent <= limit the result is WARNING with shouldNotify true iff
\* percent_used >= notify_percent_used or ahead_percent >=
\* notify_ahead_of_pace_percent (either alone, both inclusive), and ON_TRACK
\* with shouldNotify false otherwise; limit 300 over Monday to Monday at
\* Wednesday noon with 250 spent is WARNING with 50 remaining.
C2_WarningIffEitherThreshold ==
    IsEval(out) =>
        LET b == out.budget
            spent == WindowSpent(out.user_id, b)
            warn == \/ UsedReached(spent, b, out.notify_percent_used)
                    \/ AheadReached(spent, b, out.now, out.notify_ahead_of_pace_percent)
        IN  /\ (spent <= b.limit /\ warn)
                => (out.result.status = "WARNING" /\ out.result.shouldNotify = TRUE)
            /\ (spent <= b.limit /\ ~warn)
                => (out.result.status = "ON_TRACK" /\ out.result.shouldNotify = FALSE)
            /\ ( /\ b.limit = 300 /\ b.start_date = Monday0 /\ b.end_date = Monday1
                 /\ out.now = WednesdayNoon /\ spent = 250 )
                => /\ out.result.status = "WARNING"
                   /\ out.result.data.remaining = 50
                   /\ ("remaining" \in DOMAIN out.result.message
                          => out.result.message.remaining = 5000)

\* A warning raised by the percent-used threshold alone, at its boundary
\* (5 of 100 spent against a threshold of 5, the window fully elapsed).
C2_WitnessUsedAlone ==
    /\ IsEval(out)
    /\ out.budget.limit = 100
    /\ WindowSpent(out.user_id, out.budget) = 5
    /\ out.notify_percent_used = 5
    /\ ~AheadReached(5, out.budget, out.now, out.notify_ahead_of_pace_percent)
    /\ out.result.status = "WARNING"

\* The end-to-end scenario of C2.
C2_Witness ==
    /\ IsEval(out)
    /\ out.budget.limit = 300 /\ out.budget.start_date = Monday0
    /\ out.budget.end_date = Monday1 /\ out.now = WednesdayNoon
    /\ WindowSpent(out.user_id, out.budget) = 250
    /\ out.result.status = "WARNING"
    /\ out.result.data.remaining = 50

StatusRank(st) == IF st = "ON_TRACK" THEN 0 ELSE IF st = "WARNING" THEN 1 ELSE 2

\* C3: for a fixed budget, `now` and thresholds, an evaluation over a table
\* with no more spent never has a higher status, in the order
\* ON_TRACK < WARNING < OVERSPENT, than one over a table with no less spent,
\* whatever the limit (the tables compared are the expense table and each
\* selection of its rows).
C3_StatusMonotone ==
    IsEval(out) =>
        \A S \in SUBSET DOMAIN expenses :
            LET r1 == EvaluateBudgetGoal(RowsAt(expenses, S), out.user_id, out.budget,
                                         out.now, out.notify_percent_used,
                                         out.notify_ahead_of_pace_percent, "")
                r2 == out.result
            IN  /\ r1.data.spent <= r2.data.spent
                      => StatusRank(r1.status) <= StatusRank(r2.status)
                /\ r2.data.spent <= r1.data.spent
                      => StatusRank(r2.status) <= StatusRank(r1.status)

\* Limit 300: 250 spent is WARNING, 500 spent is OVERSPENT.
C3_Witness ==
    /\ IsEval(out)
    /\ out.budget.limit = 300
    /\ out.result.data.spent = 500
    /\ out.result.status = "OVERSPENT"
    /\ LET r1 == EvaluateBudgetGoal(RowsAt(expenses, {1}), out.user_id, out.budget,
                                    out.now, out.notify_percent_used,
                                    out.notify_ahead_of_pace_percent, "")
       IN  r1.data.spent = 250 /\ r1.status = "WARNING"

\* C4: the spent figure is the sum of the amounts of exactly the user's
\* expenses dated in [budget.start_date, budget.end_date), the stored bounds:
\* start included, end excluded, other users excluded, 0 when there is none.
C4_SpentIsWindowSum ==
    IsEval(out) => out.result.data.spent = WindowSpent(out.user_id, out.budget)

\* One expense dated exactly start_date (counted) and one dated exactly
\* end_date (not counted).
C4_Witness ==
    /\ IsEval(out)
    /\ out.budget.start_date < out.budget.end_date
    /\ Len(expenses) = 2
    /\ expenses[1].user_id = out.user_id /\ expenses[1].date = out.budget.start_date
    /\ expenses[2].user_id = out.user_id /\ expenses[2].date = out.budget.end_date
    /\ out.result.data.spent = expenses[1].amount

\* Another user's expense inside the window is not counted.
C4_WitnessOtherUser ==
    /\ IsEval(out)
    /\ \E i \in DOMAIN expenses :
          /\ expenses[i].user_id # out.user_id
          /\ expenses[i].date = out.budget.start_date
          /\ out.budget.start_date < out.budget.end_date
    /\ out.result.data.spent = 0

----------------------------------------------------------------------------
(* Properties of the create-expense handler (checked under Spec) *)

\* The evaluator's payload inside an alert: the alert without the three keys
\* evaluate_on_new_expense adds.
PayloadOf(alert) ==
    [f \in DOMAIN alert \ {"type", "status", "message"} |-> alert[f]]

\* The notification stored for the k-th alert of the create-expense call
\* that has just answered 201.
StatusFor(k) == statuses[Len(statuses) - Len(out.alerts) + k]

\* C5: every notification stored by the create-expense handler carries the
\* evaluator's payload of its alert in `data`, with goal_type "BUDGET" and
\* the alert's status and message.
C5_StatusCarriesPayload ==
    (out.op = "create_expense" /\ out.code = 201) =>
        \A k \in DOMAIN out.alerts :
            /\ StatusFor(k).goal_type = "BUDGET"
            /\ StatusFor(k).status = out.alerts[k].status
            /\ StatusFor(k).message = out.alerts[k].message
            /\ StatusFor(k).data = PayloadOf(out.alerts[k])

----------------------------------------------------------------------------
(* Properties of progress_ratio and of degenerate budgets (checked under EvalSpec) *)

IsProgress(o) == o.op = "progress_ratio"

\* C23: the rewriting call influences only the message. Whatever body the
\* call answers with, evaluate_budget_goal on the same budget, expenses and
\* now returns, with the same status, shouldNotify and payload; and with an
\* empty content the message is the templated one, which embeds the
\* remaining amount printed to two decimals.
C23_RoastOnlyRewritesMessage ==
    IsEval(out) =>
        \A body \in RoastBodies :
            LET content == RoastContent(body)
                r == EvaluateBudgetGoal(expenses, out.user_id, out.budget, out.now,
                                        out.notify_percent_used,
                                        out.notify_ahead_of_pace_percent, content)
            IN  /\ content # RoastFailure
                /\ r.status = out.result.status
                /\ r.shouldNotify = out.result.shouldNotify
                /\ r.data = out.result.data
                /\ content = "" =>
                      /\ r.message = GoalMessage(r.status, r.data.remaining,
                                                 r.data.percentUsed, r.data.aheadPercent)
                      /\ r.message.remaining = Fmt2(out.budget.limit - r.data.spent)

\* The same for the bodies whose first choice carries no content or a
\* string: the status, shouldNotify and payload do not depend on the body,
\* and an empty or blank content leaves the templated message.
C23_ContentOnlyRewritesMessage ==
    IsEval(out) =>
        \A body \in RoastBodies :
            LET content == RoastContent(body)
                r == EvaluateBudgetGoal(expenses, out.user_id, out.budget, out.now,
                                        out.notify_percent_used,
                                        out.notify_ahead_of_pace_percent, content)
            IN  content # RoastFailure =>
                    /\ r.status = out.result.status
                    /\ r.shouldNotify = out.result.shouldNotify
                    /\ r.data = out.result.data
                    /\ content = "" =>
                          /\ r.message = GoalMessage(r.status, r.data.remaining,
                                                     r.data.percentUsed, r.data.aheadPercent)
                          /\ r.message.remaining = Fmt2(out.budget.limit - r.data.spent)
                    /\ content # "" => r.message = [text |-> content]

\* The decoding of the bodies yields exactly the responses the model's calls
\* are answered with.
C23_BodiesCoverResponses ==
    {RoastContent(body) : body \in RoastBodies} = RoastResponses

\* The spend of user_id in the window of b over the first k rows of the table.
WindowSpentUpTo(user_id, b, k) ==
    SetSum({i \in 1..k : /\ expenses[i].user_id = user_id
                         /\ b.start_date <= expenses[i].date
                         /\ expenses[i].date < b.end_date},
           [i \in DOMAIN expenses |-> expenses[i].amount])

\* C24: an evaluation that runs while expenses are inserted reads `spent`
\* once: the returned spent is the window sum of the table as it was at some
\* moment between the entry of the call and its return, and the status,
\* shouldNotify, remaining, percentUsed, aheadBy and aheadPercent of the
\* result are all derived from that one value.
C24_SpentReadOnce ==
    (out # NoCall /\ out.op = "evaluate_budget_goal" /\ out.pc = "returned" /\ ~out.raised) =>
        LET b == out.budget
            d == out.result.data
            prog == ProgressRatio(b.start_date, b.end_date, out.now)
            c == Classify(d.spent, b.limit, d.percentUsed, d.aheadPercent, 80, 10)
        IN  /\ \E k \in out.began..out.ended : d.spent = WindowSpentUpTo(out.user_id, b, k)
            /\ d.remaining = b.limit - d.spent
            /\ d.percentUsed = PercentUsed(d.spent, b.limit)
            /\ d.aheadBy = RSub(RInt(d.spent), RMul(RInt(b.limit), prog))
            /\ d.aheadPercent = AheadPercent(d.percentUsed, RMul(prog, RInt(100)))
            /\ out.result.status = c.status
            /\ out.result.shouldNotify = c.should_notify

\* A stale result: one expense of 60 is committed between the entry and
\* the query, another between the query and the return; the call reports
\* 60, neither the 0 of its entry nor the 120 of its return.
C24_Witness ==
    /\ out # NoCall /\ out.op = "evaluate_budget_goal" /\ out.pc = "returned" /\ ~out.raised
    /\ out.began = 0 /\ out.ended = 2
    /\ out.result.data.spent = 60
    /\ WindowSpentUpTo(out.user_id, out.budget, Len(expenses)) = 120
    /\ out.result.status = "WARNING"

\* C14: with end > start, progress_ratio is in [0, 1]: 0 for now <= start,
\* 1 for now >= end, (now - start)/(end - start) in between, and it does not
\* decrease when `now` moves later.
C14_ProgressClampedMonotone ==
    (IsProgress(out) /\ out.end > out.start) =>
        LET r == out.result
        IN  /\ r[2] > 0
            /\ 0 <= r[1] /\ r[1] <= r[2]
            /\ out.now <= out.start => r = <<0, 1>>
            /\ out.now >= out.end => r = <<1, 1>>
            /\ (out.start < out.now /\ out.now < out.end) =>
                  r[1] * (out.end - out.start) = (out.now - out.start) * r[2]
            /\ \A later \in ProgressInstants :
                  later >= out.now =>
                      LET q == ProgressRatio(out.start, out.end, later)
                      IN  r[1] * q[2] <= q[1] * r[2]

\* Wednesday noon in the week [Monday, next Monday): 60 of 168 hours.
C14_Witness ==
    /\ IsProgress(out)
    /\ out.start = Monday0 /\ out.end = Monday1 /\ out.now = WednesdayNoon
    /\ out.result = <<5, 14>>

\* C15: numeric degeneracy never raises. progress_ratio is 1 for every
\* window with end <= start whatever `now`; evaluate_budget_goal on a budget
\* with end <= start or limit <= 0 fails only when the rewriting call
\* fails, and its result is well formed: a status, percentUsed 0 when
\* limit <= 0, the whole window elapsed when end <= start, and every ratio
\* a fraction with a non-zero denominator.
C15_DegenerateNeverRaises ==
    /\ (IsProgress(out) /\ out.end <= out.start) => out.result = <<1, 1>>
    /\ (out.op = "evaluate_budget_goal" /\ ~out.raised) =>
          LET b == out.budget
              d == out.result.data
          IN  (b.end_date <= b.start_date \/ b.limit <= 0) =>
                  /\ out.result.status \in {"ON_TRACK", "WARNING", "OVERSPENT"}
                  /\ out.result.shouldNotify = (out.result.status # "ON_TRACK")
                  /\ b.limit <= 0 => d.percentUsed = <<0, 1>>
                  /\ b.end_date <= b.start_date =>
                        /\ d.expectedPercentByNow = <<100, 1>>
                        /\ d.expectedSpentByNow = <<b.limit, 1>>
                  /\ \A k \in {"percentUsed", "expectedSpentByNow",
                               "expectedPercentByNow", "aheadBy", "aheadPercent"} :
                        d[k][2] > 0
                  /\ d.remaining = b.limit - d.spent
    /\ out.op = "evaluate_budget_goal" =>
          \A i \in DOMAIN budgets :
              (budgets[i].end_date <= budgets[i].start_date \/ budgets[i].limit <= 0) =>
                  \A now \in EvalNows :
                      EvaluateBudgetGoal(expenses, budgets[i].user_id, budgets[i], now, 80, 10, "").goalType = "BUDGET"

\* A budget whose window ends before it starts and whose limit is 0 is
\* evaluated: nothing used, the window fully elapsed.
C15_Witness ==
    /\ out.op = "evaluate_budget_goal" /\ ~out.raised
    /\ out.budget.end_date < out.budget.start_date
    /\ out.budget.limit = 0
    /\ out.result.data.percentUsed = <<0, 1>>
    /\ out.result.data.expectedPercentByNow = <<100, 1>>

(* Properties of the portfolio evaluator (checked under PortfolioSpec) *)

\* The stored budget with the given id.
BudgetById(id) == CHOOSE b \in {budgets[i] : i \in DOMAIN budgets} : b.id = id

\* The budgets of user_id active at `now`: start <= now < end.
ActiveBudgets(user_id, now) ==
    {budgets[i] : i \in {k \in DOMAIN budgets :
        /\ budgets[k].user_id = user_id
        /\ budgets[k].start_date <= now
        /\ now < budgets[k].end_date}}

\* Whether budget b notifies at `now` under the default thresholds.
Notifying(user_id, b, now) ==
    LET spent == WindowSpent(user_id, b)
    IN  \/ spent > b.limit
        \/ UsedReached(spent, b, 80)
        \/ AheadReached(spent, b, now, 10)

\* C6: evaluate_on_new_expense returns one alert for each budget of the user
\* that is active at `now` and notifies, and nothing else, whatever the
\* category and date of the expense; each alert is tagged BUDGET_ALERT and
\* none is ON_TRACK.
C6_AlertsAreNotifyingActive ==
    (out.op = "evaluate_on_new_expense" /\ ~out.raised) =>
        LET want == {b \in ActiveBudgets(out.user_id, out.now) :
                        Notifying(out.user_id, b, out.now)}
        IN  /\ \A k \in DOMAIN out.alerts :
                  /\ out.alerts[k].type = "BUDGET_ALERT"
                  /\ out.alerts[k].status \in {"WARNING", "OVERSPENT"}
            /\ {out.alerts[k].budgetId : k \in DOMAIN out.alerts} = {b.id : b \in want}
            /\ Len(out.alerts) = Cardinality(want)

\* The expense is of another category than the budgets; one active budget
\* notifies and is returned, another is on track and is not.
C6_Witness ==
    /\ out.op = "evaluate_on_new_expense" /\ ~out.raised
    /\ out.expense.category = "Transportation"
    /\ Len(out.alerts) = 1
    /\ out.alerts[1].status = "OVERSPENT"
    /\ Cardinality(ActiveBudgets(out.user_id, out.now)) = 2

\* C7: evaluate_all_budget_goals returns exactly one result per budget of
\* the user (per budget active at `now`, start <= now < end, when active_only
\* is true), ordered by start_date descending, nothing merged; no such
\* budget gives the empty list.
C7_OneResultPerBudgetInOrder ==
    (out.op = "evaluate_all_budget_goals" /\ ~out.raised) =>
        LET want == IF out.active_only
                    THEN ActiveBudgets(out.user_id, out.now)
                    ELSE {budgets[i] : i \in {k \in DOMAIN budgets :
                                                 budgets[k].user_id = out.user_id}}
            res == out.results
        IN  /\ Len(res) = Cardinality(want)
            /\ {res[j].budgetId : j \in DOMAIN res} = {b.id : b \in want}
            /\ \A j, k \in DOMAIN res :
                  j < k => BudgetById(res[j].budgetId).start_date
                             >= BudgetById(res[k].budgetId).start_date
            /\ \A j \in DOMAIN res :
                  /\ res[j].limit = BudgetById(res[j].budgetId).limit
                  /\ res[j].spent = WindowSpent(out.user_id, BudgetById(res[j].budgetId))

\* Two budgets of the user, the later-starting one inserted first and
\* returned first.
C7_Witness ==
    /\ out.op = "evaluate_all_budget_goals" /\ ~out.raised
    /\ ~out.active_only
    /\ Len(out.results) = 2
    /\ out.results[1].budgetId = 1
    /\ BudgetById(1).start_date = Monday1
    /\ BudgetById(2).start_date = Monday0

\* With active_only, the budget whose end_date is `now` is left out and the
\* one whose start_date is `now` is evaluated.
C7_WitnessActiveOnly ==
    /\ out.op = "evaluate_all_budget_goals" /\ ~out.raised
    /\ out.active_only /\ out.now = Monday1
    /\ Len(out.results) = 1
    /\ Cardinality({i \in DOMAIN budgets : budgets[i].user_id = out.user_id}) = 2

(* Properties of pie_expense_by_category (checked under PieSpec) *)

IsPie(o) == o.op = "pie_expense_by_category"

\* The instant a reported timestamp denotes.
InstantOfCivil(c) == InstantOf(c.year, c.month, c.day) + c.hour

\* The indices of the expenses of user_id dated in [from, to).
RowsInWindow(user_id, from, to) ==
    {i \in DOMAIN expenses :
        /\ expenses[i].user_id = user_id
        /\ from <= expenses[i].date
        /\ expenses[i].date < to}

\* The total of every category user_id spent on in [from, to), added up row
\* by row from the table.
CategoryTotals(user_id, from, to) ==
    LET R == RowsInWindow(user_id, from, to)
    IN  [c \in {expenses[i].category : i \in R} |->
            SetSum({i \in R : expenses[i].category = c},
                   [i \in DOMAIN expenses |-> expenses[i].amount])]

SliceValues(slices) == [j \in DOMAIN slices |-> slices[j].value]

\* C8: for every call of pie_expense_by_category (every top_n, both values
\* of include_other, every set of expenses) the returned slice values add up
\* to the returned total.
C8_SliceConservation ==
    IsPie(out) => SeqSum(SliceValues(out.result.slices)) = out.result.total

\* C9: the category slices come by category total descending; when
\* top_n > 0 and there are more than top_n categories, exactly top_n
\* categories are slices of their own, none smaller than a category left
\* out, and the rest is one final "Other" slice, present only when
\* include_other holds and the rest adds up to more than 0; otherwise every
\* category is a slice of its own and there is no "Other" slice; no expense
\* in the window gives total 0 and no slices.
C9_SliceStructure ==
    IsPie(out) =>
        LET res == out.result
            T == CategoryTotals(out.user_id, InstantOfCivil(res.window.start),
                                InstantOfCivil(res.window.end))
            C == DOMAIN T
            n == Cardinality(C)
            sl == res.slices
            rolled == out.top_n > 0 /\ n > out.top_n
            m == IF rolled THEN out.top_n ELSE n
        IN  /\ Len(sl) >= m
            /\ LET shown == {sl[j].label : j \in 1..m}
                   restSum == SetSum(C \ shown, [c \in C |-> T[c]])
                   hasOther == rolled /\ out.include_other /\ restSum > 0
               IN  /\ shown \subseteq C
                   /\ Cardinality(shown) = m
                   /\ \A j \in 1..m : sl[j].value = T[sl[j].label]
                   /\ \A j, k \in 1..m : j < k => sl[j].value >= sl[k].value
                   /\ \A c \in C \ shown : \A j \in 1..m : sl[j].value >= T[c]
                   /\ Len(sl) = m + (IF hasOther THEN 1 ELSE 0)
                   /\ hasOther => sl[m + 1] = [label |-> "Other", value |-> restSum]
            /\ n = 0 => (res.total = 0 /\ sl = <<>>)

\* Seven categories with top_n = 5 give six slices, the last one "Other"
\* holding the two smallest categories.
C9_Witness ==
    /\ IsPie(out)
    /\ out.top_n = 5 /\ out.include_other
    /\ Cardinality(DOMAIN CategoryTotals(out.user_id,
                                         InstantOfCivil(out.result.window.start),
                                         InstantOfCivil(out.result.window.end))) = 7
    /\ Len(out.result.slices) = 6
    /\ out.result.slices[6] = [label |-> "Other", value |-> 10 + 20]

\* The first instant of the month of `now` and of the month after it.
FirstOfMonth(now) ==
    LET c == Civil(now)
    IN  [year |-> c.year, month |-> c.month, day |-> 1, hour |-> 0]

FirstOfNextMonth(now) ==
    LET c == Civil(now)
    IN  [year |-> IF c.month = 12 THEN c.year + 1 ELSE c.year,
         month |-> IF c.month = 12 THEN 1 ELSE c.month + 1,
         day |-> 1, hour |-> 0]

InstantOfIso(c) == InstantOf(c.year, c.month, c.day) + c.hour - c.offset

\* The expenses of user_id dated in [from, to), of the category when one is
\* given, added up row by row from the table.
SpentIn(user_id, from, to, category) ==
    SetSum({i \in RowsInWindow(user_id, from, to) :
               category # None => expenses[i].category = category[1]},
           [i \in DOMAIN expenses |-> expenses[i].amount])

\* C11: trend_series(period = weekly, buckets = N) and
\* weekly_spend_series(weeks = N) return exactly N entries, oldest first,
\* with strictly increasing starts; each window is 7 days long and ends
\* where the next one starts, the last one is the week holding `now`, and
\* each total is the spend of its window.
C11_WeeklySeriesContiguous ==
    /\ (out.op = "trend_series" /\ out.period = "weekly") =>
          /\ ~out.result.raised
          /\ LET ser == out.result.series
                 from(i) == InstantOfIso(ser[i].start)
                 to(i) == InstantOfIso(ser[i].end)
                 n == Len(ser)
             IN  /\ n = out.buckets
                 /\ \A i \in 1..n :
                       /\ to(i) = from(i) + 7 * 24
                       /\ ser[i].total = SpentIn(out.user_id, from(i), to(i), None)
                 /\ \A i \in 1..(n - 1) :
                       /\ from(i) < from(i + 1)
                       /\ to(i) = from(i + 1)
                 /\ n > 0 => /\ from(n) <= UtcInstant(out.now)
                             /\ UtcInstant(out.now) < to(n)
    /\ out.op = "weekly_spend_series" =>
          LET pts == out.result.points
              from(i) == InstantOfIso(pts[i].x)
              n == Len(pts)
          IN  /\ n = out.weeks
              /\ \A i \in 1..n :
                    pts[i].y = SpentIn(out.user_id, from(i), from(i) + 7 * 24, out.category)
              /\ \A i \in 1..(n - 1) : from(i + 1) = from(i) + 7 * 24
              /\ n > 0 => /\ from(n) <= UtcInstant(out.now)
                          /\ UtcInstant(out.now) < from(n) + 7 * 24

\* Three weekly buckets on Wednesday 2025-12-03: the week before holds 40,
\* the current week 10.
C11_Witness ==
    /\ out.op = "trend_series" /\ out.period = "weekly" /\ out.buckets = 3
    /\ ~out.result.raised
    /\ Len(out.result.series) = 3
    /\ out.result.series[1].total = 0
    /\ out.result.series[2].total = 40
    /\ out.result.series[3].total = 10
    /\ out.result.series[3].start = [year |-> 2025, month |-> 12, day |-> 1, hour |-> 0, offset |-> 0]

\* C12: window_for_period("weekly", now) starts at the most recent Monday
\* 00:00:00 UTC at or before `now` and ends 7 days later, so that
\* start <= now < end, for naive `now` and for aware `now` of any offset.
C12_WeeklyMondayUtc ==
    (out.op = "window_for_period" /\ out.period = "weekly") =>
        /\ ~out.result.raised
        /\ LET from == UtcInstant(out.result.start)
               to == UtcInstant(out.result.end)
               now == UtcInstant(EnsureTz(out.now))
           IN  /\ from % (7 * 24) = 0
               /\ to = from + 7 * 24
               /\ from <= now /\ now < to

C13_WitnessDecember ==
    /\ out.op = "window_for_period" /\ out.period = "monthly"
    /\ Civil(EnsureTz(out.now).wall).month = 12
    /\ Civil(out.result.end.wall) = [year |-> 2026, month |-> 1, day |-> 1, hour |-> 0]

\* The first instant of the calendar period after the one that starts at
\* the printed timestamp c.
NextPeriodStart(period, c) ==
    IF period = "yearly" THEN [c EXCEPT !.year = c.year + 1]
    ELSE IF c.month = 12 THEN [c EXCEPT !.year = c.year + 1, !.month = 1]
    ELSE [c EXCEPT !.month = c.month + 1]

\* C25: trend_series for period monthly or yearly returns `buckets` entries,
\* oldest first; every entry is a whole calendar month (year): it starts on
\* the first day of a month (of January) at 00:00 and ends at the start of
\* the following month (year); each entry ends where the next one starts,
\* so no period is skipped or repeated; the last entry holds `now`; and
\* each total is the spend of its window.
C25_TrendCalendarContiguous ==
    (out.op = "trend_series" /\ out.period \in {"monthly", "yearly"}) =>
        /\ ~out.result.raised
        /\ LET ser == out.result.series
               n == Len(ser)
               from(i) == InstantOfIso(ser[i].start)
               to(i) == InstantOfIso(ser[i].end)
           IN  /\ n = out.buckets
               /\ \A i \in 1..n :
                     /\ ser[i].start.day = 1 /\ ser[i].start.hour = 0
                     /\ out.period = "yearly" => ser[i].start.month = 1
                     /\ ser[i].end = NextPeriodStart(out.period, ser[i].start)
                     /\ ser[i].total = SpentIn(out.user_id, from(i), to(i), None)
               /\ \A i \in 1..(n - 1) :
                     /\ ser[i].end = ser[i + 1].start
                     /\ from(i) < from(i + 1)
               /\ n > 0 => /\ from(n) <= UtcInstant(out.now)
                           /\ UtcInstant(out.now) < to(n)

\* Three monthly buckets on 2026-03-31: January, February, March.
C25_Witness ==
    /\ out.op = "trend_series" /\ out.period = "monthly" /\ out.buckets = 3
    /\ out.now = DateTime(March31, Some(5))
    /\ ~out.result.raised
    /\ out.result.series[1].start = [year |-> 2026, month |-> 1, day |-> 1, hour |-> 0, offset |-> 5]
    /\ out.result.series[2].start = [year |-> 2026, month |-> 2, day |-> 1, hour |-> 0, offset |-> 5]
    /\ out.result.series[3].end = [year |-> 2026, month |-> 4, day |-> 1, hour |-> 0, offset |-> 5]

\* Three yearly buckets on 2026-02-07: 2024, a leap year, 2025 and 2026.
C25_WitnessYearly ==
    /\ out.op = "trend_series" /\ out.period = "yearly" /\ out.buckets = 3
    /\ ~out.result.raised
    /\ out.result.series[1].start = [year |-> 2024, month |-> 1, day |-> 1, hour |-> 0, offset |-> 0]
    /\ InstantOfIso(out.result.series[1].end) - InstantOfIso(out.result.series[1].start) = 366 * 24
    /\ out.result.series[3].end = [year |-> 2027, month |-> 1, day |-> 1, hour |-> 0, offset |-> 0]

(* Properties of the budget handlers (checked under BudgetSpec) *)

\* C22: whatever budgets were created, updated and deleted, every stored
\* budget ends after it starts.
C22_BudgetsEndAfterStart ==
    \A i \in DOMAIN budgets : budgets[i].end_date > budgets[i].start_date

\* The budgets are stored with the dates the requests gave.
C22_StoredAsGiven ==
    out.op = "create_budget" =>
        \E i \in DOMAIN budgets :
            /\ budgets[i].id = out.body.id
            /\ IsoFormat(budgets[i].start_date) = out.body.startDate
            /\ IsoFormat(budgets[i].end_date) = out.body.endDate

\* C26: for every budget of a user and every state of the expense table,
\* the spent of the analysis layer (evaluate_budget_goal,
\* budgets_with_spent) equals the spent GET /api/budgets reports for the
\* same budget.
C26_AnalysisSpentEqualsApiSpent ==
    /\ out.op = "get_budgets" =>
          \A j \in DOMAIN out.fetched :
              /\ out.body[j].spent =
                     BudgetsWithSpent(expenses, out.user_id, out.fetched)[j].spent
              /\ out.body[j].spent =
                     EvaluateBudgetGoal(expenses, out.user_id, out.fetched[j], clock, 80, 10, "").data.spent
    /\ out.op = "budgets_with_spent" =>
          \A j \in DOMAIN out.fetched :
              out.result[j].spent = BudgetSpent(expenses, out.user_id, out.fetched[j])

\* The two functions of the analysis layer agree with each other, and the
\* handler's spent is theirs less the window's expenses of other categories.
C26_AnalysisLayerAgrees ==
    /\ out.op = "budgets_with_spent" =>
          \A j \in DOMAIN out.fetched :
              out.result[j].spent =
                  EvaluateBudgetGoal(expenses, out.user_id, out.fetched[j], clock, 80, 10, "").data.spent
    /\ out.op = "get_budgets" =>
          \A j \in DOMAIN out.fetched :
              LET b == out.fetched[j]
                  others == {i \in DOMAIN expenses :
                                /\ expenses[i].user_id = out.user_id
                                /\ b.start_date <= expenses[i].date
                                /\ expenses[i].date < b.end_date
                                /\ expenses[i].category # b.category}
              IN  out.body[j].spent + SetSum(others, [i \in DOMAIN expenses |-> expenses[i].amount])
                     = BudgetsWithSpent(expenses, out.user_id, out.fetched)[j].spent

(* Properties of update_profile (checked under ProfileSpec) *)

FixedCategories ==
    {"Food & Dining", "Grocery", "Transportation", "Shopping / Personal", "Lifestyle"}

\* The budgets of user_id in category c that are active at the current time.
ActiveIn(user_id, c) ==
    {i \in DOMAIN budgets : /\ budgets[i].user_id = user_id
                            /\ budgets[i].category = c
                            /\ budgets[i].start_date <= clock
                            /\ clock < budgets[i].end_date}

\* [start, end) is the calendar month that holds the instant now.
IsMonthOf(start, end, now) ==
    /\ start <= now /\ now < end
    /\ Civil(start).day = 1 /\ Civil(start).hour = 0
    /\ Civil(end).day = 1 /\ Civil(end).hour = 0
    /\ end - start <= 31 * 24

\* What one profile update does to the budget table.
ProfileUpdateStep ==
    (out = NoCall /\ out'.op = "update_profile" /\ out'.code = 200) =>
        LET goal == GetUserById(users', out'.user_id)[1].budget_goal
            old == Len(budgets)
            new == (old + 1)..Len(budgets')
        IN  IF goal # None /\ goal[1] > 0
            THEN /\ Len(budgets') = old + 5
                 /\ SubSeq(budgets', 1, old) = budgets
                 /\ \A c \in FixedCategories :
                       Cardinality({i \in new : budgets'[i].category = c}) = 1
                 /\ \A i \in new :
                       /\ budgets'[i].user_id = out'.user_id
                       /\ budgets'[i].period = "monthly"
                       /\ IsMonthOf(budgets'[i].start_date, budgets'[i].end_date, clock)
                       /\ \A j \in DOMAIN budgets : budgets[j].id # budgets'[i].id
                 /\ SetSum(new, [i \in DOMAIN budgets' |-> budgets'[i].limit]) = goal[1]
            ELSE budgets' = budgets

\* C30: every profile update after which the stored budget_goal is
\* positive, whether or not the request carried a budgetGoal, appends five
\* monthly budgets for the month of the current time, one per fixed
\* category, with limits that add up to budget_goal, and leaves every
\* earlier budget in place; any other update leaves the budget table
\* alone. The active budgets of a user therefore number the same in each
\* fixed category: k after k such updates in the month.
C30_ProfileUpdateAddsFive ==
    /\ [][ProfileUpdateStep]_vars
    /\ [](\A u \in Users : \A c, e \in FixedCategories :
              Cardinality(ActiveIn(u, c)) = Cardinality(ActiveIn(u, e)))

\* Two updates of u1 in December, the second without a budgetGoal in the
\* request: ten active budgets, two per category, next to the hand-made one.
C30_Witness ==
    /\ out.op = "update_profile" /\ out.code = 200 /\ out.user_id = "u1"
    /\ out.budgetGoal = None
    /\ out.body.budgetGoal = Some(100)
    /\ \A c \in FixedCategories : Cardinality(ActiveIn("u1", c)) = 2
    /\ Cardinality(ActiveIn("u1", "Travel")) = 1
    /\ Cardinality({i \in DOMAIN budgets : budgets[i].user_id = "u1"}) = 11

(* The frame of the evaluation and analytics functions (checked under *)
(* AnalyticsSpec)                                                      *)

AnalyticsOps ==
    {"evaluate_budget_goal", "evaluate_all_budget_goals", "evaluate_on_new_expense",
     "budgets_with_spent", "trend_series", "pie_expense_by_category",
     "weekly_spend_series", "compare_user_to_cohort_in_region"}

\* C21: a call of one of the eight evaluation and analytics functions,
\* whether it returns or raises, leaves the User, Expense, Budget and
\* BudgetStatus tables exactly as they were.
C21_AnalyticsLeaveStores ==
    [][(out = NoCall /\ out'.op \in AnalyticsOps) =>
          UNCHANGED <<users, expenses, budgets, statuses>>]_vars

\* evaluate_on_new_expense has returned an alert for the overspent budget
\* over filled tables; the only notification stored is the one of the
\* request that created the expense.
C21_Witness ==
    /\ out.op = "evaluate_on_new_expense" /\ ~out.raised
    /\ Len(out.alerts) = 1 /\ out.alerts[1].status = "OVERSPENT"
    /\ Len(expenses) = 2 /\ Len(budgets) = 1 /\ Len(statuses) = 1
    /\ users[2].budget_goal = Some(0)

(* Properties of create_expense (checked under ExpenseSpec) *)

\* The expenses of user_id dated in the window of b, added up row by row
\* from the table E.
SpentOf(E, user_id, b) ==
    SetSum({i \in DOMAIN E : /\ E[i].user_id = user_id
                             /\ b.start_date <= E[i].date
                             /\ E[i].date < b.end_date},
           [i \in DOMAIN E |-> E[i].amount])

IsPrefix(s, t) == Len(s) <= Len(t) /\ SubSeq(t, 1, Len(s)) = s

\* The step answers POST /api/expenses with `code`.
CreateAnswered(code) ==
    out = NoCall /\ out'.op = "create_expense" /\ out'.code = code

\* The budget the alert was raised for.
BudgetOfAlert(alert) == GetById(budgets, alert.budgetId)[1]

\* C28: whether the handler answers 201 or 500 after the fields were
\* accepted, the new expense is in the table and every notification stored
\* before stays; on 500 the notifications written before the failure stay
\* as well; on 201 the spent of every alert is the window sum of the table
\* with the new expense in it, which counts the new expense whenever its
\* date lies in the budget window.
C28_CommitBeforeEvaluate ==
    [][(CreateAnswered(201) \/ CreateAnswered(500)) =>
          LET new == expenses'[Len(expenses')]
          IN  /\ Len(expenses') = Len(expenses) + 1
              /\ SubSeq(expenses', 1, Len(expenses)) = expenses
              /\ new.user_id = out'.user_id
              /\ IsPrefix(statuses, statuses')
              /\ CreateAnswered(201) =>
                    \A j \in DOMAIN out'.alerts :
                       LET b == BudgetOfAlert(out'.alerts[j])
                           counted == b.start_date <= new.date /\ new.date < b.end_date
                       IN  /\ out'.alerts[j].spent = SpentOf(expenses', out'.user_id, b)
                           /\ out'.alerts[j].spent =
                                 SpentOf(expenses, out'.user_id, b)
                                   + (IF counted THEN new.amount ELSE 0)]_vars

\* A request answered 500 whose first notification was stored: both
\* expenses are in the table, and so are the notification of the first
\* request and the one written before the failure.
C28_Witness ==
    /\ out.op = "create_expense" /\ out.code = 500
    /\ Len(expenses) = 2 /\ Len(statuses) = 2
    /\ statuses[1].status = "OVERSPENT" /\ statuses[2].status = "OVERSPENT"

\* The new expense counted in the spent of an alert.
C28_WitnessSpent ==
    /\ out.op = "create_expense" /\ out.code = 201
    /\ Len(expenses) = 2 /\ Len(out.alerts) = 2
    /\ \E j \in DOMAIN out.alerts : out.alerts[j].spent = 500 /\ out.alerts[j].limit = 1000

\* The budgets of user_id that are active at `now` and notifying over E:
\* spent over the limit, 80 percent of it used, or the share used ten
\* points or more ahead of the share of the window elapsed.
NotifyingBudgets(E, user_id, now) ==
    {i \in DOMAIN budgets : /\ budgets[i].user_id = user_id
                            /\ budgets[i].start_date <= now /\ now < budgets[i].end_date
                            /\ LET spent == SpentOf(E, user_id, budgets[i])
                               IN  \/ spent > budgets[i].limit
                                   \/ UsedReached(spent, budgets[i], 80)
                                   \/ AheadReached(spent, budgets[i], now, 10)}

\* What one successful creation appends to the notification table.
FeedStep ==
    CreateAnswered(201) =>
        LET n == Len(statuses)
            alerts == out'.alerts
            N == NotifyingBudgets(expenses', out'.user_id, clock)
        IN  /\ Len(statuses') = n + Cardinality(N)
            /\ Len(alerts) = Cardinality(N)
            /\ {alerts[j].budgetId : j \in DOMAIN alerts} = {budgets[i].id : i \in N}
            /\ \A j \in DOMAIN alerts :
                  /\ statuses'[n + j].user_id = out'.user_id
                  /\ statuses'[n + j].status = alerts[j].status
                  /\ statuses'[n + j].message = alerts[j].message
                  /\ statuses'[n + j].timestamp = clock

\* C29: every stored notification has status WARNING or OVERSPENT and
\* should_notify true; a successful creation appends one notification per
\* active budget of the user that notifies with the new expense stored,
\* whatever was stored for that budget before; and no step changes or
\* removes a stored notification.
C29_NotificationFeed ==
    /\ [](\A i \in DOMAIN statuses : /\ statuses[i].status \in {"WARNING", "OVERSPENT"}
                                     /\ statuses[i].should_notify = TRUE)
    /\ [][FeedStep]_vars
    /\ [][IsPrefix(statuses, statuses')]_vars

\* Two expenses created while the budget of 100 stays overspent: one
\* notification for it after the first, one more after the second next to
\* the warning of the budget of 1000.
C29_Witness ==
    /\ out.op = "create_expense" /\ out.code = 201
    /\ Len(expenses) = 2 /\ Len(statuses) = 3
    /\ Cardinality({i \in DOMAIN statuses : statuses[i].status = "OVERSPENT"}) = 2
    /\ Cardinality({i \in DOMAIN statuses : statuses[i].status = "WARNING"}) = 1
    /\ Len(budgets) = 2

(* Properties of the expense handlers by id (checked under OwnerSpec) *)

\* The step answers a request `op` on a stored expense that the caller
\* does not own.
ByNonOwner(op) ==
    /\ out = NoCall /\ out'.op = op
    /\ LET e == GetById(expenses, out'.expense_id)
       IN  e # None /\ e[1].user_id # out'.user_id

\* C27: an update request by an authenticated user who does not own the
\* expense leaves the expense table as it was.
C27_NonOwnerUpdateLeavesExpense ==
    [][ByNonOwner("update_expense") => expenses' = expenses]_vars

\* What does hold: the non-owner is answered 404 without a body, and a
\* delete request by a non-owner removes nothing.
C27_NonOwnerAnswered404 ==
    [][(ByNonOwner("update_expense") \/ ByNonOwner("delete_expense")) =>
          /\ out'.code = 404
          /\ "body" \notin DOMAIN out'
          /\ Len(expenses') = Len(expenses)
          /\ \A i \in DOMAIN expenses : /\ expenses'[i].id = expenses[i].id
                                        /\ expenses'[i].user_id = expenses[i].user_id]_vars

C27_NonOwnerDeleteLeavesExpense ==
    [][ByNonOwner("delete_expense") => expenses' = expenses]_vars

(* Properties of the cohort functions (checked under CohortSpec) *)

IsCompare(o) == o.op = "compare_user_to_cohort_in_region"

\* Whether the users table has a row for user_id with a non-empty location
\* and an income that falls in a bucket.
HasCohort(user_id) ==
    \E k \in DOMAIN users :
        /\ users[k].id = user_id
        /\ users[k].location \notin {None, Some("")}
        /\ users[k].monthly_income # None
        /\ \E b \in DOMAIN INCOME_BUCKETS :
              /\ WLe(INCOME_BUCKETS[b][1], users[k].monthly_income[1])
              /\ WLt(users[k].monthly_income[1], INCOME_BUCKETS[b][2])

\* C16 as stated: window_for_period fails with an invalid-period error and
\* returns no window for every period other than weekly, monthly, yearly,
\* and the error comes out of trend_series, current_spend_summary and
\* compare_user_to_cohort_in_region called with such a period.
C16_InvalidPeriodPropagates ==
    /\ (out.op = "window_for_period" /\ out.period \notin Periods) =>
          /\ out.result.raised
          /\ DOMAIN out.result \cap {"start", "end"} = {}
    /\ (out.op \in {"trend_series", "current_spend_summary",
                    "compare_user_to_cohort_in_region"}
        /\ out.period \notin Periods) => out.result.raised

\* C16: window_for_period fails with an invalid-period error and returns no
\* window for every period other than weekly, monthly, yearly; the error
\* comes out of trend_series and current_spend_summary whenever they are
\* called with such a period (before any entry is built), and out of
\* compare_user_to_cohort_in_region when the user exists and has a location
\* and an income bucket; for a user who is missing, or has no location or no
\* income bucket, the comparison returns its informational result and the
\* period is never looked at.
C16_InvalidPeriodRaisesWhenResolved ==
    /\ out.op = "window_for_period" =>
          IF out.period \in Periods
          THEN ~out.result.raised
          ELSE /\ out.result.raised
               /\ out.result.error = "ValueError"
               /\ DOMAIN out.result \cap {"start", "end"} = {}
    /\ (out.op \in {"trend_series", "current_spend_summary"} /\ out.period \notin Periods) =>
          /\ out.result.raised
          /\ out.result.error = "ValueError"
          /\ DOMAIN out.result \cap {"series", "summary"} = {}
    /\ (IsCompare(out) /\ out.period \notin Periods) =>
          IF HasCohort(out.user_id)
          THEN /\ out.result.raised
               /\ out.result.error = "ValueError"
          ELSE /\ ~out.result.raised
               /\ out.result.queries = <<"get_user_by_id">>

\* u1 lives in Boston with an income of 3000 and asks for the period
\* "daily": the comparison fails with the invalid-period error.
C16_Witness ==
    /\ IsCompare(out)
    /\ out.period = "daily" /\ out.user_id = "u1"
    /\ HasCohort("u1")
    /\ out.result.raised
    /\ out.result.error = "ValueError"

\* The window of a comparison that got as far as its queries.
CompareFrom(o) == InstantOfIso(o.result.result.data.window.start)
CompareTo(o) == InstantOfIso(o.result.result.data.window.end)

\* Whether the call reached the comparison and returned.
Compared(o) == IsCompare(o) /\ ~o.result.raised /\ Len(o.result.queries) = 3

\* C17: when peer_users >= min_peers and peer_avg > 0, delta_pct is
\* (user_spent - peer_avg) / peer_avg * 100 and the templated message is
\* "spent more" iff delta_pct >= 15, "spent less" iff delta_pct <= -15 and
\* "close to average" otherwise, both bounds inclusive. The templated
\* message is what the rewriting call is given, and what is returned when
\* the rewriting call returns nothing.
C17_CohortMessageThresholds ==
    Compared(out) =>
        LET d == out.result.result.data
            avg == d.peerAvg
            msg == out.result.rewritten[1]
            \* 100 * (user_spent - avg) against 15 * avg, with avg = n/m
            lhs == 100 * (d.userSpent * avg[2] - avg[1])
            rhs == 15 * avg[1]
        IN  /\ d.userSpent = SpentIn(out.user_id, CompareFrom(out), CompareTo(out), out.category)
            /\ out.result.result.message = IF out.content = "" THEN msg ELSE [text |-> out.content]
            /\ (d.peerUsers >= out.min_peers /\ avg[1] > 0) =>
                  /\ d.deltaPercent[1] * avg[1] = lhs * d.deltaPercent[2]
                  /\ (msg.text = "you spent ~% more") = (lhs >= rhs)
                  /\ (msg.text = "you spent ~% less") = (lhs <= 0 - rhs)
                  /\ (msg.text = "your spending is close to average")
                        = (lhs < rhs /\ lhs > 0 - rhs)

\* user_spent = 115 against a peer average of 100: delta_pct is exactly 15
\* and the message is "spent more".
C17_Witness ==
    /\ Compared(out)
    /\ out.content = ""
    /\ out.result.result.data.userSpent = 115
    /\ out.result.result.data.peerAvg = <<100, 1>>
    /\ out.result.result.data.deltaPercent = <<15, 1>>
    /\ out.result.result.message.text = "you spent ~% more"

\* user_spent = 85 against a peer average of 100: delta_pct is exactly -15
\* and the message is "spent less".
C17_WitnessLess ==
    /\ Compared(out)
    /\ out.content = ""
    /\ out.result.result.data.deltaPercent = <<0 - 15, 1>>
    /\ out.result.result.message.text = "you spent ~% less"

ComparisonTexts ==
    {"you spent ~% more", "you spent ~% less", "your spending is close to average"}

\* C18: missing data is never an error. A user who is not found, has no
\* location or has no income bucket gets a COHORT_REGION_FEEDBACK result
\* with an informational message, produced after the user lookup alone;
\* peer_users < min_peers and peer_avg <= 0 give a COHORT_REGION_FEEDBACK
\* result whose templated message is informational and not a comparison.
\* The call fails only on an invalid period or when the rewriting call fails.
C18_MissingDataIsNotAnError ==
    IsCompare(out) =>
        LET r == out.result
        IN  /\ ~HasCohort(out.user_id) =>
                  /\ ~r.raised
                  /\ r.result.type = "COHORT_REGION_FEEDBACK"
                  /\ r.result.message.text \in
                        {"User not found.",
                         "Missing location. Set user.location during onboarding.",
                         "Missing monthlyIncome. Set user.monthly_income during onboarding."}
                  /\ r.queries = <<"get_user_by_id">>
                  /\ r.rewritten = None
                  /\ DOMAIN r.result.data \cap {"userSpent", "peerAvg", "deltaPercent"} = {}
            /\ r.raised => (out.period \notin Periods \/ out.content = RoastFailure)
            /\ Compared(out) =>
                  LET d == r.result.data
                  IN  (d.peerUsers < out.min_peers \/ d.peerAvg[1] <= 0) =>
                          /\ r.result.type = "COHORT_REGION_FEEDBACK"
                          /\ r.rewritten[1].text \in {"Not enough peer data to compare",
                                                      "Peer average is not available"}
                          /\ r.rewritten[1].text \notin ComparisonTexts
                          /\ out.content = "" => r.result.message = r.rewritten[1]

\* The only peer has spent 0: there are enough peers but no average to
\* compare with.
C18_Witness ==
    /\ Compared(out)
    /\ out.content = ""
    /\ out.result.result.data.peerUsers >= out.min_peers
    /\ out.result.result.data.peerAvg = <<0, 1>>
    /\ out.result.result.message.text = "Peer average is not available"

\* u1 has a location but an income no bucket holds.
C18_WitnessNoIncome ==
    /\ IsCompare(out) /\ ~out.result.raised
    /\ out.user_id = "u1" /\ out.period = "daily" /\ out.content = RoastFailure
    /\ out.result.result.message.text = "Missing monthlyIncome. Set user.monthly_income during onboarding."

\* The users who count as peers: location equal, income in the range of
\* the label, and at least one expense in [from, to) of the category.
PeersOf(location, label, from, to, category) ==
    {users[k].id : k \in {j \in DOMAIN users :
        /\ users[j].location = Some(location)
        /\ users[j].monthly_income # None
        /\ WLe(label[1], users[j].monthly_income[1])
        /\ Len(label) = 3 => WLt(users[j].monthly_income[1], label[3])
        /\ \E i \in RowsInWindow(users[j].id, from, to) :
              category # None => expenses[i].category = category[1]}}

\* C19: cohort_region_peer_stats returns (average, count) over exactly the
\* users of the location whose income is in [lo, hi) and who have at least
\* one expense in [start, end) (of the category when given): the count is
\* the number of such users, the average the mean of their totals, and no
\* such user gives (0, 0).
C19_PeerStatsOverSpenders ==
    out.op = "cohort_region_peer_stats" =>
        LET P == PeersOf(out.location, out.bucket_label, out.start, out.end, out.category)
            totals == [u \in P |-> SpentIn(u, out.start, out.end, out.category)]
            avg == out.result[1]
        IN  /\ out.result[2] = Cardinality(P)
            /\ avg[2] > 0
            /\ IF P = {} THEN avg = <<0, 1>>
               ELSE avg[1] * Cardinality(P) = SetSum(P, totals) * avg[2]

\* u1 (income 3000) spent 115 and u2 (income 3999) spent 85 in Boston: two
\* peers, average 100; u3 of Austin is not among them.
C19_Witness ==
    /\ out.op = "cohort_region_peer_stats"
    /\ out.location = "Boston" /\ out.category = None
    /\ out.result = <<<<100, 1>>, 2>>

\* u2 is in the bucket and the location but has no expense in the window:
\* only u1 is counted.
C19_WitnessNoExpense ==
    /\ out.op = "cohort_region_peer_stats"
    /\ out.location = "Boston" /\ out.category = None
    /\ users[1].monthly_income = Some(Wide(3000))
    /\ users[2].monthly_income = Some(Wide(3999))
    /\ out.result = <<<<115, 1>>, 1>>
    /\ RowsInWindow("u2", out.start, out.end) = {}

\* C20: every monthly income x >= 0 gets exactly one bucket label, that of
\* the bucket whose range [lo, hi) holds x (2500 gets "2500-4000", every
\* x >= 13000 gets "13000+"); a None income gets no label; and the range
\* parsed back from the label of x has lo <= x < hi.
C20_EveryIncomeOneBucket ==
    out.op = "income_bucket_label" =>
        IF out.monthly_income = None THEN out.result = None
        ELSE LET x == out.monthly_income[1]
             IN  /\ out.result # None
                 /\ LET label == out.result[1]
                        r == IncomeBucketRange(label)
                    IN  /\ WLe(r[1], x)
                        /\ r[2] # Infinity => WLt(x, r[2])
                        /\ WLe(Wide(13000), x) <=> label = <<Wide(13000), "+">>
                        /\ x = Wide(2500) => label = <<Wide(2500), "-", Wide(4000)>>
                        /\ Cardinality({b \in DOMAIN INCOME_BUCKETS :
                                           /\ INCOME_BUCKETS[b][1] = r[1]
                                           /\ WLe(INCOME_BUCKETS[b][1], x)}) = 1

====
